---------------------------- MODULE Spec2Model ----------------------------
(* VR benefit pipeline (Automacao_Compra_VR): ingestion, consolidation,     *)
(* validation (eligibility), calculation and report generation, modelled    *)
(* as one state machine over the VRState dictionary.                        *)
(*                                                                          *)
(* Conventions                                                              *)
(*   - a DataFrame is [columns |-> set of column names, rows |-> sequence   *)
(*     of rows]; a row is a function from the frame's column names to cell  *)
(*     values, so "column absent" (row.get(col, default)) and "cell is      *)
(*     NaN" (pd.isna) are different things, as in pandas;                   *)
(*   - numeric and date cells are integers, NaN / NaT is the integer NaN;   *)
(*     a date is its day-of-month (the only part of a date the code reads); *)
(*     BadDate is a cell pd.to_datetime cannot parse;                       *)
(*   - money is in integer cents (35.0 is 3500); a daily rate with a third  *)
(*     decimal has its thousandths in the cell VALOR_DIA_MILESIMOS;         *)
(*   - text cells are strings; str.upper() and the `in` substring test are  *)
(*     computed on their characters (Chars).                                *)
EXTENDS Integers, Sequences, FiniteSets, TLC

VARIABLES
  raw_files,          \* state["raw_files"]: file key -> DataFrame
  consolidated_df,    \* state["consolidated_df"]
  validated_df,       \* state["validated_df"]
  calculated_df,      \* state["calculated_df"]
  final_report,       \* state["final_report"]
  total_employees,    \* state["total_employees"]
  eligible_employees, \* state["eligible_employees"]
  excluded_employees, \* state["excluded_employees"]
  errors,             \* state["errors"]
  warnings,           \* state["warnings"]
  processing_stage,   \* state["processing_stage"]
  success,            \* state["success"]
  exclusion_df,       \* the frame of _apply_individual_exclusion_rules with ELEGIVEL / MOTIVO_EXCLUSAO, before the filter
  pc                  \* the node of the workflow graph that runs next

vars == <<raw_files, consolidated_df, validated_df, calculated_df, final_report,
          total_employees, eligible_employees, excluded_employees, errors,
          warnings, processing_stage, success, exclusion_df, pc>>

-----------------------------------------------------------------------------
(* Bounds of the model *)

MaxRosterRows == 2
MaxStaff == 3
MaxDias == 6
MaxFerias == 3

-----------------------------------------------------------------------------
(* Cell values *)

NaN == 0 - 9999
BadDate == 0 - 8888
None == [none |-> TRUE]

isna(v) == v = NaN
notna(v) == v # NaN

DefaultDailyValue == 3500
DefaultWorkdays == 22
CutoffDay == 15

-----------------------------------------------------------------------------
(* Text: characters, str.upper(), substring test *)

Chars(s) ==
  CASE s = "Analista" -> <<"A", "n", "a", "l", "i", "s", "t", "a">>
  [] s = "Diretor Regional" -> <<"D", "i", "r", "e", "t", "o", "r", " ", "R", "e", "g", "i", "o", "n", "a", "l">>
  [] s = "Gerente Geral" -> <<"G", "e", "r", "e", "n", "t", "e", " ", "G", "e", "r", "a", "l">>
  [] s = "Vice-Presidente" -> <<"V", "i", "c", "e", "-", "P", "r", "e", "s", "i", "d", "e", "n", "t", "e">>
  [] s = "nan" -> <<"n", "a", "n">>
  [] s = "Trabalhando" -> <<"T", "r", "a", "b", "a", "l", "h", "a", "n", "d", "o">>
  [] s = "Férias" -> <<"F", "é", "r", "i", "a", "s">>
  [] s = "Licença Maternidade" -> <<"L", "i", "c", "e", "n", "ç", "a", " ", "M", "a", "t", "e", "r", "n", "i", "d", "a", "d", "e">>
  [] s = "Auxílio Doença" -> <<"A", "u", "x", "í", "l", "i", "o", " ", "D", "o", "e", "n", "ç", "a">>
  [] s = "Atestado" -> <<"A", "t", "e", "s", "t", "a", "d", "o">>
  [] s = "Afastado" -> <<"A", "f", "a", "s", "t", "a", "d", "o">>
  [] s = "LICENCA MATERNIDADE" -> <<"L", "I", "C", "E", "N", "C", "A", " ", "M", "A", "T", "E", "R", "N", "I", "D", "A", "D", "E">>
  [] s = "DIRETOR" -> <<"D", "I", "R", "E", "T", "O", "R">>
  [] s = "GERENTE GERAL" -> <<"G", "E", "R", "E", "N", "T", "E", " ", "G", "E", "R", "A", "L">>
  [] s = "PRESIDENTE" -> <<"P", "R", "E", "S", "I", "D", "E", "N", "T", "E">>
  [] s = "VICE-PRESIDENTE" -> <<"V", "I", "C", "E", "-", "P", "R", "E", "S", "I", "D", "E", "N", "T", "E">>
  [] s = "TRABALHANDO" -> <<"T", "R", "A", "B", "A", "L", "H", "A", "N", "D", "O">>
  [] s = "FÉRIAS" -> <<"F", "É", "R", "I", "A", "S">>
  [] s = "LICENÇA MATERNIDADE" -> <<"L", "I", "C", "E", "N", "Ç", "A", " ", "M", "A", "T", "E", "R", "N", "I", "D", "A", "D", "E">>
  [] s = "AUXÍLIO DOENÇA" -> <<"A", "U", "X", "Í", "L", "I", "O", " ", "D", "O", "E", "N", "Ç", "A">>
  [] s = "ATESTADO" -> <<"A", "T", "E", "S", "T", "A", "D", "O">>
  [] s = "AUXILIO DOENCA" -> <<"A", "U", "X", "I", "L", "I", "O", " ", "D", "O", "E", "N", "C", "A">>
  [] s = "AFASTADO" -> <<"A", "F", "A", "S", "T", "A", "D", "O">>
  [] s = "SINDPD SP - SAO PAULO" -> <<"S", "I", "N", "D", "P", "D", " ", "S", "P", " ", "-", " ", "S", "A", "O", " ", "P", "A", "U", "L", "O">>
  [] s = "SITEPD PR - CURITIBA" -> <<"S", "I", "T", "E", "P", "D", " ", "P", "R", " ", "-", " ", "C", "U", "R", "I", "T", "I", "B", "A">>
  [] s = "SINDPD SP" -> <<"S", "I", "N", "D", "P", "D", " ", "S", "P">>
  [] s = "SINDPPD RS" -> <<"S", "I", "N", "D", "P", "P", "D", " ", "R", "S">>
  [] s = "SITEPD PR" -> <<"S", "I", "T", "E", "P", "D", " ", "P", "R">>
  [] s = "SINDPD RJ" -> <<"S", "I", "N", "D", "P", "D", " ", "R", "J">>
  [] s = "" -> <<>>

LowerToUpper ==
  ("a" :> "A") @@ ("b" :> "B") @@ ("c" :> "C") @@ ("d" :> "D") @@ ("e" :> "E") @@
  ("f" :> "F") @@ ("g" :> "G") @@ ("h" :> "H") @@ ("i" :> "I") @@ ("l" :> "L") @@
  ("n" :> "N") @@ ("o" :> "O") @@ ("r" :> "R") @@ ("s" :> "S") @@ ("t" :> "T") @@
  ("u" :> "U") @@ ("x" :> "X") @@ ("ç" :> "Ç") @@ ("é" :> "É") @@ ("í" :> "Í")

\* str.upper() on a character sequence
Upper(cs) ==
  [i \in 1..Len(cs) |-> IF cs[i] \in DOMAIN LowerToUpper THEN LowerToUpper[cs[i]] ELSE cs[i]]

\* str(v).upper() of a text cell
StrUpper(v) == Upper(Chars(v))

\* Python's `needle in hay` on character sequences
Contains(needle, hay) ==
  \E i \in 0..(Len(hay) - Len(needle)) : SubSeq(hay, i + 1, i + Len(needle)) = needle

-----------------------------------------------------------------------------
(* DataFrame helpers *)

Frame(cols, rows) == [columns |-> cols, rows |-> rows]

\* row.get(col, default)
Get(row, col, default) == IF col \in DOMAIN row THEN row[col] ELSE default

\* df[col] = v on one row (adds the column or overwrites the cell)
SetCell(row, col, v) == [c \in (DOMAIN row) \cup {col} |-> IF c = col THEN v ELSE row[c]]

\* df[cols]
Project(df, cols) ==
  Frame(cols, [i \in 1..Len(df.rows) |-> [c \in cols |-> df.rows[i][c]]])

\* df.rename(columns={old: new})
Rename(df, old, new) ==
  IF old \notin df.columns THEN df
  ELSE Frame((df.columns \ {old}) \cup {new},
             [i \in 1..Len(df.rows) |->
                [c \in (df.columns \ {old}) \cup {new} |->
                   IF c = new THEN df.rows[i][old] ELSE df.rows[i][c]]])

\* df.empty
Empty(df) == Len(df.rows) = 0 \/ df.columns = {}

RECURSIVE KeepFirstFrom(_, _, _)
KeepFirstFrom(rows, key, i) ==
  IF i > Len(rows) THEN <<>>
  ELSE (IF \E j \in 1..(i - 1) : rows[j][key] = rows[i][key] THEN <<>> ELSE <<rows[i]>>)
       \o KeepFirstFrom(rows, key, i + 1)

\* a variant of drop_duplicates that keeps the last occurrence of each key
RECURSIVE KeepLastFrom(_, _, _)
KeepLastFrom(rows, key, i) ==
  IF i > Len(rows) THEN <<>>
  ELSE (IF \E j \in (i + 1)..Len(rows) : rows[j][key] = rows[i][key] THEN <<>> ELSE <<rows[i]>>)
       \o KeepLastFrom(rows, key, i + 1)

DropDuplicatesKeepLast(df, key) == Frame(df.columns, KeepLastFrom(df.rows, key, 1))

\* df.drop_duplicates(subset=[key]): the first row of each key, in row order
DropDuplicates(df, key) == Frame(df.columns, KeepFirstFrom(df.rows, key, 1))

RECURSIVE MergeRows(_, _, _, _)
MergeRows(left, right, key, rcols) ==
  IF left = <<>> THEN <<>>
  ELSE LET r == Head(left)
           m == SelectSeq(right, LAMBDA q : q[key] = r[key])
           joined(q) == [c \in (DOMAIN r) \cup rcols |-> IF c \in DOMAIN r THEN r[c] ELSE q[c]]
       IN  (IF m = <<>>
            THEN <<[c \in (DOMAIN r) \cup rcols |-> IF c \in DOMAIN r THEN r[c] ELSE NaN]>>
            ELSE [i \in 1..Len(m) |-> joined(m[i])])
           \o MergeRows(Tail(left), right, key, rcols)

\* a variant of the merge that keeps only the left rows with a match (how="inner")
MergeInner(left, right, key) ==
  Frame(left.columns \cup right.columns,
        MergeRows(SelectSeq(left.rows,
                            LAMBDA r : \E i \in 1..Len(right.rows) : right.rows[i][key] = r[key]),
                  right.rows, key, right.columns \ left.columns))

\* left.merge(right, on=key, how="left"): one output row per matching right
\* row, one NaN-filled row for a left row without a match, left order kept
MergeLeft(left, right, key) ==
  Frame(left.columns \cup right.columns,
        MergeRows(left.rows, right.rows, key, right.columns \ left.columns))

\* set(df[col])
ColumnSet(df, col) == {df.rows[i][col] : i \in 1..Len(df.rows)}

\* df[col] = df['MATRICULA'].isin(ids)
WithIsin(df, col, ids) ==
  Frame(df.columns \cup {col},
        [i \in 1..Len(df.rows) |-> SetCell(df.rows[i], col, df.rows[i]["MATRICULA"] \in ids)])

RECURSIVE DictOfZip(_, _, _, _)
\* dict(zip(df[keycol], df[valcol])).get(k): the value of the last row with key k
DictOfZip(rows, keycol, valcol, k) ==
  IF rows = <<>> THEN NaN
  ELSE LET last == rows[Len(rows)]
       IN  IF last[keycol] = k THEN last[valcol]
           ELSE DictOfZip(SubSeq(rows, 1, Len(rows) - 1), keycol, valcol, k)

\* df[col] = df['Sindicato'].map(dict).fillna(default)
WithMapped(df, col, table, valcol, default) ==
  Frame(df.columns \cup {col},
        [i \in 1..Len(df.rows) |->
           LET v == DictOfZip(table.rows, "SINDICATO", valcol, df.rows[i]["Sindicato"])
           IN  SetCell(df.rows[i], col, IF isna(v) THEN default ELSE v)])

-----------------------------------------------------------------------------
(* Exceptions: an operator that models code which can raise returns either  *)
(* its result or Raise(message)                                             *)

Raise(msg) == [raised |-> msg]
Raised(x) == "raised" \in DOMAIN x

-----------------------------------------------------------------------------
(* ConsolidationAgent *)

\* vacation table: MATRICULA and DIAS DE FÉRIAS, deduplicated, left-joined
AddFerias(base_df, files) ==
  IF /\ "ferias" \in DOMAIN files
     /\ ~Empty(files["ferias"])
     /\ "MATRICULA" \in files["ferias"].columns
     /\ "DIAS DE FÉRIAS" \in files["ferias"].columns
  THEN MergeLeft(base_df,
                 DropDuplicates(Project(files["ferias"], {"MATRICULA", "DIAS DE FÉRIAS"}), "MATRICULA"),
                 "MATRICULA")
  ELSE base_df

\* a variant that reads the identifiers only from a MATRICULA column
AddExclusionFlagMatriculaOnly(base_df, files, file_key, flag_name) ==
  IF file_key \in DOMAIN files /\ ~Empty(files[file_key]) /\ "MATRICULA" \in files[file_key].columns
  THEN WithIsin(base_df, flag_name, ColumnSet(files[file_key], "MATRICULA") \ {NaN})
  ELSE base_df

\* one exclusion table: flag_name = MATRICULA.isin(set of the table's identifiers)
AddExclusionFlag(base_df, files, file_key, flag_name) ==
  IF file_key \in DOMAIN files /\ ~Empty(files[file_key])
  THEN IF "MATRICULA" \in files[file_key].columns
       THEN WithIsin(base_df, flag_name, ColumnSet(files[file_key], "MATRICULA") \ {NaN})
       ELSE IF "Cadastro" \in files[file_key].columns
       THEN WithIsin(base_df, flag_name, ColumnSet(files[file_key], "Cadastro") \ {NaN})
       ELSE base_df
  ELSE base_df

AddExclusionFlags(base_df, files) ==
  AddExclusionFlag(
    AddExclusionFlag(
      AddExclusionFlag(
        AddExclusionFlag(base_df, files, "estagio", "IS_ESTAGIARIO"),
        files, "aprendiz", "IS_APRENDIZ"),
      files, "afastamentos", "IS_AFASTADO"),
    files, "exterior", "IS_EXTERIOR")

\* dismissal table: DATA_DEMISSAO left-joined, IS_DESLIGADO flag.  A table
\* that has 'DATA DEMISSÃO' but not 'DATA_DEMISSAO' is renamed and then
\* indexed by the old name: KeyError
AddDesligados(base_df, files) ==
  IF /\ "desligados" \in DOMAIN files
     /\ ~Empty(files["desligados"])
     /\ "MATRICULA" \in files["desligados"].columns
  THEN LET d == files["desligados"]
       IN  IF "DATA_DEMISSAO" \in d.columns
           THEN LET dd == DropDuplicates(Project(d, {"MATRICULA", "DATA_DEMISSAO"}), "MATRICULA")
                IN  WithIsin(MergeLeft(base_df, dd, "MATRICULA"), "IS_DESLIGADO",
                             ColumnSet(dd, "MATRICULA"))
           ELSE IF "DATA DEMISSÃO" \in d.columns
           THEN Raise("KeyError: DATA DEMISSÃO not in index")
           ELSE WithIsin(base_df, "IS_DESLIGADO", ColumnSet(d, "MATRICULA"))
  ELSE base_df

\* admission table: Admissão left-joined as DATA_ADMISSAO
AddAdmissao(base_df, files) ==
  IF /\ "admissao" \in DOMAIN files
     /\ ~Empty(files["admissao"])
     /\ "MATRICULA" \in files["admissao"].columns
     /\ "Admissão" \in files["admissao"].columns
  THEN MergeLeft(base_df,
                 Rename(DropDuplicates(Project(files["admissao"], {"MATRICULA", "Admissão"}), "MATRICULA"),
                        "Admissão", "DATA_ADMISSAO"),
                 "MATRICULA")
  ELSE base_df

_consolidate_employee_data(base_df, files) ==
  LET d == AddDesligados(AddExclusionFlags(AddFerias(base_df, files), files), files)
  IN  IF Raised(d) THEN d ELSE AddAdmissao(d, files)

_add_union_values(base_df, files) ==
  IF /\ "base_sindicato" \in DOMAIN files
     /\ ~Empty(files["base_sindicato"])
     /\ "SINDICATO" \in files["base_sindicato"].columns
     /\ "VALOR_DIA" \in files["base_sindicato"].columns
     /\ "Sindicato" \in base_df.columns
  THEN WithMapped(base_df, "VALOR_DIA", files["base_sindicato"], "VALOR_DIA", DefaultDailyValue)
  ELSE base_df

_add_workdays_by_union(base_df, files) ==
  IF /\ "base_dias_uteis" \in DOMAIN files
     /\ ~Empty(files["base_dias_uteis"])
     /\ "SINDICATO" \in files["base_dias_uteis"].columns
     /\ "DIAS_UTEIS" \in files["base_dias_uteis"].columns
     /\ "Sindicato" \in base_df.columns
  THEN WithMapped(base_df, "DIAS_UTEIS_SINDICATO", files["base_dias_uteis"], "DIAS_UTEIS", DefaultWorkdays)
  ELSE base_df

\* the roster deduplicated by MATRICULA, first occurrence kept
DedupRoster(ativos) == DropDuplicates(ativos, "MATRICULA")

\* the try block without its three precondition checks: an empty frame
\* where the code raises
ConsolidationTryUnguarded(files) ==
  IF "ativos" \notin DOMAIN files THEN Frame({"MATRICULA"}, <<>>)
  ELSE IF "MATRICULA" \notin files["ativos"].columns THEN Frame({"MATRICULA"}, <<>>)
  ELSE LET d == _consolidate_employee_data(DedupRoster(files["ativos"]), files)
       IN  IF Raised(d) THEN d
           ELSE _add_workdays_by_union(_add_union_values(d, files), files)

\* the try block of ConsolidationAgent.execute: the consolidated frame, or
\* the exception it raises
ConsolidationTry(files) ==
  IF DOMAIN files = {} THEN Raise("Dados brutos não encontrados no estado")
  ELSE IF "ativos" \notin DOMAIN files THEN Raise("Arquivo ATIVOS obrigatório não encontrado")
  ELSE IF "MATRICULA" \notin files["ativos"].columns
  THEN Raise("Coluna MATRICULA não encontrada em ATIVOS")
  ELSE LET d == _consolidate_employee_data(DedupRoster(files["ativos"]), files)
       IN  IF Raised(d) THEN d
           ELSE _add_workdays_by_union(_add_union_values(d, files), files)

-----------------------------------------------------------------------------
(* ValidationAgent *)

\* `if row.get(flag, False): motivos.append(text)`
FlagMotivo(row, flag, text) == IF Get(row, flag, FALSE) THEN <<text>> ELSE <<>>

\* 'DIRETOR' in cargo or 'GERENTE GERAL' in cargo or 'PRESIDENTE' in cargo
CargoExcluido(row) ==
  LET cargo == StrUpper(Get(row, "TITULO DO CARGO", ""))
  IN  \/ Contains(Chars("DIRETOR"), cargo)
      \/ Contains(Chars("GERENTE GERAL"), cargo)
      \/ Contains(Chars("PRESIDENTE"), cargo)

\* f'Situação: {situacao}' for the three statuses that exclude
SituacaoMotivo(row) ==
  LET situacao == StrUpper(Get(row, "DESC. SITUACAO", ""))
  IN  IF situacao # <<>> /\ situacao \notin {Chars("TRABALHANDO"), Chars("FÉRIAS")}
      THEN IF situacao = Chars("LICENÇA MATERNIDADE") THEN <<"Situação: LICENÇA MATERNIDADE">>
           ELSE IF situacao = Chars("AUXÍLIO DOENÇA") THEN <<"Situação: AUXÍLIO DOENÇA">>
           ELSE IF situacao = Chars("ATESTADO") THEN <<"Situação: ATESTADO">>
           ELSE <<>>
      ELSE <<>>

\* a variant of the loop body that stops at the first matching cause
MotivosFirstOnly(row) ==
  LET all == FlagMotivo(row, "IS_ESTAGIARIO", "Estagiário")
             \o FlagMotivo(row, "IS_APRENDIZ", "Aprendiz")
             \o FlagMotivo(row, "IS_AFASTADO", "Afastado")
             \o FlagMotivo(row, "IS_EXTERIOR", "Trabalha no exterior")
             \o (IF CargoExcluido(row) THEN <<"Cargo excluído">> ELSE <<>>)
             \o SituacaoMotivo(row)
  IN  IF all = <<>> THEN <<>> ELSE <<Head(all)>>

\* the list `motivos` built for one row: every matching cause, in code order
Motivos(row) ==
  FlagMotivo(row, "IS_ESTAGIARIO", "Estagiário")
  \o FlagMotivo(row, "IS_APRENDIZ", "Aprendiz")
  \o FlagMotivo(row, "IS_AFASTADO", "Afastado")
  \o FlagMotivo(row, "IS_EXTERIOR", "Trabalha no exterior")
  \o (IF CargoExcluido(row) THEN <<"Cargo excluído">> ELSE <<>>)
  \o SituacaoMotivo(row)

\* the frame after the loop: ELEGIVEL and MOTIVO_EXCLUSAO set on every row
\* (MOTIVO_EXCLUSAO is the list that '; '.join concatenates)
MarkExclusions(df) ==
  Frame(df.columns \cup {"ELEGIVEL", "MOTIVO_EXCLUSAO"},
        [i \in 1..Len(df.rows) |->
           SetCell(SetCell(df.rows[i], "ELEGIVEL", Motivos(df.rows[i]) = <<>>),
                   "MOTIVO_EXCLUSAO", Motivos(df.rows[i]))])

\* the marking columns dropped without the filter on ELEGIVEL
FilterEligibleKeepAll(marked) ==
  Project(marked, marked.columns \ {"ELEGIVEL", "MOTIVO_EXCLUSAO"})

\* df[df['ELEGIVEL'] == True].drop(['ELEGIVEL', 'MOTIVO_EXCLUSAO'], axis=1)
FilterEligible(marked) ==
  Project(Frame(marked.columns, SelectSeq(marked.rows, LAMBDA r : r["ELEGIVEL"] = TRUE)),
          marked.columns \ {"ELEGIVEL", "MOTIVO_EXCLUSAO"})

\* returns the marked frame, the eligible frame and state["excluded_employees"]
_apply_individual_exclusion_rules(df) ==
  LET marked == MarkExclusions(df)
      df_eligible == FilterEligible(marked)
  IN  [marked |-> marked,
       df_eligible |-> df_eligible,
       total_excluded |-> Len(df.rows) - Len(df_eligible.rows)]

\* a variant of the cutoff test that excludes no dismissal at all, so that
\* every dismissed employee is kept with the pro-rated regime
ExcludeNoDismissal(day) == FALSE

\* a variant of the cutoff test that lets the cutoff day itself through
ExcludeBeforeCutoff(day) == day < CutoffDay

\* rules.py should_exclude_by_dismissal_date / validation.py `data_demissao.day <= 15`
ExcludeByDismissalDay(day) == day <= CutoffDay

\* which of the columns written with df.at exist after the loop
DismissedEarly(row) ==
  row["IS_DESLIGADO"] /\ notna(row["DATA_DEMISSAO"]) /\ ExcludeByDismissalDay(row["DATA_DEMISSAO"])
DismissedLate(row) ==
  row["IS_DESLIGADO"] /\ notna(row["DATA_DEMISSAO"]) /\ ~ExcludeByDismissalDay(row["DATA_DEMISSAO"])

\* the cells one iteration of the dismissal loop writes; cells of a column
\* another iteration created are NaN ("nan" for text)
DismissalRow(row, cols) ==
  LET out(c) ==
        IF c \in DOMAIN row THEN row[c]
        ELSE IF c = "ELEGIVEL_VR" THEN ~DismissedEarly(row)
        ELSE IF c = "TIPO_CALCULO"
             THEN (IF DismissedEarly(row) THEN "nan"
                   ELSE IF DismissedLate(row) THEN "PROPORCIONAL" ELSE "INTEGRAL")
        ELSE IF c = "MOTIVO_EXCLUSAO_VR"
             THEN (IF DismissedEarly(row) THEN "Demissão até dia 15" ELSE "nan")
        ELSE (IF DismissedLate(row) THEN row["DATA_DEMISSAO"] ELSE NaN)
  IN  [c \in cols |-> out(c)]

_apply_dismissal_rules(df) ==
  IF "IS_DESLIGADO" \in df.columns /\ "DATA_DEMISSAO" \in df.columns
  THEN IF \E i \in 1..Len(df.rows) :
            df.rows[i]["IS_DESLIGADO"] /\ df.rows[i]["DATA_DEMISSAO"] = BadDate
       THEN Raise("pd.to_datetime: unparseable DATA_DEMISSAO")
       ELSE IF df.rows = <<>> THEN Raise("KeyError: ELEGIVEL_VR")
       ELSE LET cols == df.columns \cup {"ELEGIVEL_VR"}
                        \cup (IF \E i \in 1..Len(df.rows) : ~DismissedEarly(df.rows[i])
                              THEN {"TIPO_CALCULO"} ELSE {})
                        \cup (IF \E i \in 1..Len(df.rows) : DismissedEarly(df.rows[i])
                              THEN {"MOTIVO_EXCLUSAO_VR"} ELSE {})
                        \cup (IF \E i \in 1..Len(df.rows) : DismissedLate(df.rows[i])
                              THEN {"DATA_LIMITE_CALCULO"} ELSE {})
                looped == [i \in 1..Len(df.rows) |-> DismissalRow(df.rows[i], cols)]
            IN  Frame(cols, SelectSeq(looped, LAMBDA r : r["ELEGIVEL_VR"] = TRUE))
  ELSE Frame(df.columns \cup {"ELEGIVEL_VR", "TIPO_CALCULO"},
             [i \in 1..Len(df.rows) |->
                SetCell(SetCell(df.rows[i], "ELEGIVEL_VR", TRUE), "TIPO_CALCULO", "INTEGRAL")])

\* a variant of the vacation loop that overwrites the regime of every row on vacation
VacationRowOverwrite(row) ==
  LET r0 == SetCell(SetCell(row, "EM_FERIAS", FALSE), "DIAS_FERIAS", 0)
      dias_ferias == Get(row, "DIAS DE FÉRIAS", 0)
  IN  IF "DIAS DE FÉRIAS" \in DOMAIN row /\ notna(dias_ferias) /\ dias_ferias > 0
      THEN SetCell(SetCell(SetCell(r0, "EM_FERIAS", TRUE), "DIAS_FERIAS", dias_ferias),
                   "TIPO_CALCULO", "FERIAS")
      ELSE r0

\* one row of _process_vacation_rules
VacationRow(row) ==
  LET r0 == SetCell(SetCell(row, "EM_FERIAS", FALSE), "DIAS_FERIAS", 0)
      dias_ferias == Get(row, "DIAS DE FÉRIAS", 0)
  IN  IF "DIAS DE FÉRIAS" \in DOMAIN row /\ notna(dias_ferias) /\ dias_ferias > 0
      THEN LET r1 == SetCell(SetCell(r0, "EM_FERIAS", TRUE), "DIAS_FERIAS", dias_ferias)
           IN  IF r1["TIPO_CALCULO"] = "INTEGRAL" THEN SetCell(r1, "TIPO_CALCULO", "FERIAS") ELSE r1
      ELSE r0

_process_vacation_rules(df) ==
  Frame(df.columns \cup {"EM_FERIAS", "DIAS_FERIAS"},
        [i \in 1..Len(df.rows) |-> VacationRow(df.rows[i])])

\* the try block of ValidationAgent.execute.  step tells how far it got:
\* 0 raised before any state key was written, 2 raised after
\* _apply_individual_exclusion_rules wrote excluded_employees, 5 completed
ValidationTry(cdf) ==
  IF cdf = None THEN [step |-> 0, raised |-> "DataFrame consolidado não encontrado no estado"]
  ELSE IF Empty(cdf) THEN [step |-> 0, raised |-> "DataFrame consolidado está vazio ou inválido"]
  ELSE IF "MATRICULA" \notin cdf.columns THEN [step |-> 0, raised |-> "Coluna MATRICULA é obrigatória"]
  ELSE LET ex == _apply_individual_exclusion_rules(cdf)
           dis == _apply_dismissal_rules(ex.df_eligible)
       IN  IF Raised(dis) THEN [step |-> 2, raised |-> dis.raised, ex |-> ex]
           ELSE [step |-> 5, ex |-> ex, df |-> _process_vacation_rules(dis)]

-----------------------------------------------------------------------------
(* CalculationAgent *)

\* Python's round(): num/den to the nearest integer, ties to the even one
RoundHalfEven(num, den) ==
  LET q == num \div den
      r == num % den
  IN  IF 2 * r < den THEN q
      ELSE IF 2 * r > den THEN q + 1
      ELSE IF q % 2 = 0 THEN q ELSE q + 1

\* a variant of the half-month rule that rounds instead of truncating
HalfRounded(dias_base) == RoundHalfEven(dias_base, 2)

\* int(dias_base * 0.5): truncation toward zero
HalfTruncated(dias_base) ==
  IF dias_base >= 0 THEN dias_base \div 2 ELSE 0 - ((0 - dias_base) \div 2)

\* max() left out: the computed operand is returned without its floor
Unfloored(a, b) == b

\* max(a, b)
Max(a, b) == IF a >= b THEN a ELSE b

\* a variant of the vacation rule without the floor at zero
VacationAdjustmentUnclamped(base_days, vacation_days) == base_days - vacation_days

\* rules.py calculate_vacation_adjustment / calculation.py `max(0, dias_base - dias_ferias)`
VacationAdjustment(base_days, vacation_days) == Max(0, base_days - vacation_days)

\* dias_base of _calculate_individual_workdays
DiasBase(employee) ==
  LET d == Get(employee, "DIAS_UTEIS_SINDICATO", 22)
  IN  IF isna(d) THEN 22 ELSE d

\* pd.to_datetime(data_limite) raises on a cell it cannot parse
WorkdaysRaises(employee) ==
  /\ Get(employee, "TIPO_CALCULO", "INTEGRAL") = "PROPORCIONAL"
  /\ Get(employee, "DATA_LIMITE_CALCULO", NaN) = BadDate

\* the paid-day count of one employee (when WorkdaysRaises is false)
_calculate_individual_workdays(employee) ==
  LET dias_base == DiasBase(employee)
      tipo_calculo == Get(employee, "TIPO_CALCULO", "INTEGRAL")
  IN  IF tipo_calculo = "INTEGRAL" THEN dias_base
      ELSE IF tipo_calculo = "FERIAS"
      THEN LET f == Get(employee, "DIAS_FERIAS", 0)
           IN  VacationAdjustment(dias_base, IF isna(f) THEN 0 ELSE f)
      ELSE IF tipo_calculo = "PROPORCIONAL"
      THEN LET data_limite == Get(employee, "DATA_LIMITE_CALCULO", NaN)
           IN  IF isna(data_limite) THEN dias_base
               ELSE IF data_limite <= 15 THEN Max(1, HalfTruncated(dias_base))
               ELSE dias_base
      ELSE dias_base

\* the daily rate in cents: the mapped VALOR_DIA when present and positive,
\* else the first key of the built-in table contained in the union name, else 35.0
_get_daily_value_for_employee(employee) ==
  LET valor_dia == Get(employee, "VALOR_DIA", NaN)
      sindicato == Chars(Get(employee, "Sindicato", ""))
  IN  IF notna(valor_dia) /\ valor_dia > 0 THEN valor_dia
      ELSE IF Contains(Chars("SINDPD SP"), sindicato) THEN 3750
      ELSE IF Contains(Chars("SINDPPD RS"), sindicato) THEN 3500
      ELSE IF Contains(Chars("SITEPD PR"), sindicato) THEN 3500
      ELSE IF Contains(Chars("SINDPD RJ"), sindicato) THEN 3500
      ELSE 3500

\* _generate_employee_observations: the parts '; '.join concatenates
\* (the numbers formatted into the parts are left out)
Observacoes(employee) ==
  LET tipo_calculo == Get(employee, "TIPO_CALCULO", "INTEGRAL")
  IN  (IF tipo_calculo = "FERIAS" THEN <<"AJUSTE FÉRIAS">>
       ELSE IF tipo_calculo = "PROPORCIONAL" /\ notna(Get(employee, "DATA_LIMITE_CALCULO", NaN))
       THEN <<"DESLIGAMENTO PROPORCIONAL">>
       ELSE <<>>)
      \o <<"dias × R$">>

\* int(dias_ferias) raises on NaN
ObservacoesRaises(employee) ==
  Get(employee, "TIPO_CALCULO", "INTEGRAL") = "FERIAS" /\ isna(Get(employee, "DIAS_FERIAS", 0))

\* the third decimal of the daily rate: a rate is VALOR_DIA cents plus
\* VALOR_DIA_MILESIMOS thousandths (0 when the record has no such cell or
\* the rate comes from the built-in table)
Milesimos(employee) ==
  LET valor_dia == Get(employee, "VALOR_DIA", NaN)
  IN  IF notna(valor_dia) /\ valor_dia > 0 THEN Get(employee, "VALOR_DIA_MILESIMOS", 0) ELSE 0

\* valor_total = dias_calculo * valor_diario with valor_diario in
\* thousandths; round(valor_total, 2), in cents
ValorTotal(dias_calculo, valor_diario) == RoundHalfEven(dias_calculo * valor_diario, 10)

\* round(valor_total * 0.8, 2), in cents, of a valor_total in thousandths
CustoEmpresa(valor_total) == RoundHalfEven(8 * valor_total, 100)

\* a variant that takes the employee share out of the employer share
DescontoOfCusto(valor_total) == RoundHalfEven(2 * CustoEmpresa(valor_total), 10)

\* round(valor_total * 0.2, 2), in cents, of a valor_total in thousandths
DescontoProfissional(valor_total) == RoundHalfEven(2 * valor_total, 100)

\* the columns the loop initialises on every row
CalcInit(employee) ==
  SetCell(SetCell(SetCell(SetCell(SetCell(employee,
    "DIAS_CALCULO", 0), "VALOR_TOTAL_VR", 0), "CUSTO_EMPRESA", 0),
    "DESCONTO_PROFISSIONAL", 0), "OBSERVACOES", <<>>)

\* one iteration of the loop of _calculate_individual_benefits
CalcRow(employee) ==
  LET dias_calculo == _calculate_individual_workdays(employee)
  IN  IF WorkdaysRaises(employee) \/ ObservacoesRaises(employee)
      THEN SetCell(CalcInit(employee), "OBSERVACOES", <<"ERRO NO CÁLCULO">>)
      ELSE LET valor_diario == 10 * _get_daily_value_for_employee(employee) + Milesimos(employee)
               valor_total == dias_calculo * valor_diario
           IN  SetCell(SetCell(SetCell(SetCell(SetCell(employee,
                 "DIAS_CALCULO", dias_calculo),
                 "VALOR_TOTAL_VR", ValorTotal(dias_calculo, valor_diario)),
                 "CUSTO_EMPRESA", CustoEmpresa(valor_total)),
                 "DESCONTO_PROFISSIONAL", DescontoProfissional(valor_total)),
                 "OBSERVACOES", Observacoes(employee))

CalcColumns == {"DIAS_CALCULO", "VALOR_TOTAL_VR", "CUSTO_EMPRESA", "DESCONTO_PROFISSIONAL", "OBSERVACOES"}

\* the loop with the regime of every record reset to INTEGRAL once its days
\* are computed
CalculateResettingRegime(df) ==
  Frame(df.columns \cup CalcColumns,
        [i \in 1..Len(df.rows) |-> SetCell(CalcRow(df.rows[i]), "TIPO_CALCULO", "INTEGRAL")])

\* the loop with the try block around it instead of inside it: the records
\* after the first one that raises keep the initial values
CalculateStoppingAtError(df) ==
  LET raises(i) == WorkdaysRaises(df.rows[i]) \/ ObservacoesRaises(df.rows[i])
  IN  Frame(df.columns \cup CalcColumns,
            [i \in 1..Len(df.rows) |->
               IF \E k \in 1..(i - 1) : raises(k)
               THEN CalcInit(df.rows[i]) ELSE CalcRow(df.rows[i])])

\* CalculationAgent._calculate_individual_benefits
_calculate_individual_benefits(df) ==
  Frame(df.columns \cup CalcColumns, [i \in 1..Len(df.rows) |-> CalcRow(df.rows[i])])

\* the stored (total, employer share, employee share) triples, in cents, one
\* cent apart, for which abs(total - (empresa + colaborador)) > 0.01 is true
\* in binary floating point (0.010000000000000002 and the like): rates
\* 35.00x and 37.50x, up to 9 and from 20 to 23 paid days
FloatDriftFlagged ==
  {<<7002, 5601, 1400>>, <<7502, 6001, 1500>>, <<10501, 8400, 2100>>,
   <<11251, 9000, 2250>>, <<14002, 11201, 2800>>, <<15002, 12001, 3000>>,
   <<24506, 19604, 4901>>, <<28003, 22403, 5601>>, <<30003, 24003, 6001>>}

\* `abs(total - (empresa + colaborador)) > 0.01` on one calculated row
Inconsistent(row) ==
  LET total == row["VALOR_TOTAL_VR"]
      empresa == row["CUSTO_EMPRESA"]
      colaborador == row["DESCONTO_PROFISSIONAL"]
      diff == total - (empresa + colaborador)
  IN  \/ diff > 1
      \/ 0 - diff > 1
      \/ <<total, empresa, colaborador>> \in FloatDriftFlagged

\* the count _validate_calculation_results logs
Inconsistencies(df) == Cardinality({i \in 1..Len(df.rows) : Inconsistent(df.rows[i])})

\* state["warnings"] after _validate_calculation_results: the zero totals
\* and the inconsistencies go to logger.warning only
_validate_calculation_results(df, state_warnings) == state_warnings

-----------------------------------------------------------------------------
(* ReportGenerationAgent *)

\* the fallback order with the validated frame tried before the calculated one
ExtractDataframeValidatedFirst(calc, val, cons) ==
  IF val # None THEN val ELSE IF calc # None THEN calc ELSE cons

\* the first of calculated_df, validated_df, consolidated_df that is not None
ExtractDataframe(calc, val, cons) ==
  IF calc # None THEN calc ELSE IF val # None THEN val ELSE cons

\* one row of _transform_to_final_format (Competência, a constant of the
\* run, is left out; Admissão is the admission day, 1 for the default date)
FinalRow(row) ==
  LET dias == IF "DIAS_CALCULO" \in DOMAIN row THEN row["DIAS_CALCULO"]
              ELSE IF "DIAS_UTEIS_SINDICATO" \in DOMAIN row
              THEN (IF isna(row["DIAS_UTEIS_SINDICATO"]) THEN 22 ELSE row["DIAS_UTEIS_SINDICATO"])
              ELSE 22
      total_vr == Get(row, "VALOR_TOTAL_VR", 0)
      valor == IF "VALOR_DIA" \in DOMAIN row THEN row["VALOR_DIA"]
               ELSE IF dias = 0 THEN NaN ELSE RoundHalfEven(total_vr, dias)
      total == IF "VALOR_TOTAL_VR" \in DOMAIN row THEN row["VALOR_TOTAL_VR"]
               ELSE IF isna(valor) THEN NaN ELSE valor * dias
      empresa == IF "CUSTO_EMPRESA" \in DOMAIN row THEN row["CUSTO_EMPRESA"]
                 ELSE IF isna(total) THEN NaN ELSE RoundHalfEven(8 * total, 10)
      desconto == IF "DESCONTO_PROFISSIONAL" \in DOMAIN row THEN row["DESCONTO_PROFISSIONAL"]
                  ELSE IF isna(total) THEN NaN ELSE RoundHalfEven(2 * total, 10)
  IN  [Matricula |-> row["MATRICULA"],
       Admissao |-> Get(row, "DATA_ADMISSAO", 1),
       Sindicato |-> Get(row, "Sindicato", "Não informado"),
       Dias |-> dias,
       ValorDiario |-> valor,
       Total |-> total,
       CustoEmpresa |-> empresa,
       DescontoProfissional |-> desconto,
       Obs |-> Get(row, "OBSERVACOES", <<"CÁLCULO NORMAL">>)]

FinalColumns ==
  {"Matricula", "Admissao", "Sindicato", "Dias", "ValorDiario", "Total",
   "CustoEmpresa", "DescontoProfissional", "Obs"}

_transform_to_final_format(df) ==
  Frame(FinalColumns, [i \in 1..Len(df.rows) |-> FinalRow(df.rows[i])])

-----------------------------------------------------------------------------
(* The workflow: ingest -> consolidate -> validate -> calculate -> generate  *)

\* the edges with the one out of "validate" leading past the calculation
SuccessorSkippingCalculation(node) ==
  CASE node = "ingest" -> "consolidate"
    [] node = "consolidate" -> "validate"
    [] node = "validate" -> "generate"
    [] node = "calculate" -> "generate"
    [] node = "generate" -> "END"

\* the edges with the one out of "validate" leading nowhere, as when the
\* node lets an exception escape and the run is abandoned
SuccessorAbandoning(node) ==
  CASE node = "ingest" -> "consolidate"
    [] node = "consolidate" -> "validate"
    [] node = "validate" -> "abandoned"
    [] node = "calculate" -> "generate"
    [] node = "generate" -> "END"

\* VRWorkflow._setup_workflow: add_edge(node, Successor(node))
Successor(node) ==
  CASE node = "ingest" -> "consolidate"
    [] node = "consolidate" -> "validate"
    [] node = "validate" -> "calculate"
    [] node = "calculate" -> "generate"
    [] node = "generate" -> "END"

NoFiles == [k \in {} |-> None]

\* run.py initial_state
Init ==
  /\ raw_files = NoFiles
  /\ consolidated_df = None
  /\ validated_df = None
  /\ calculated_df = None
  /\ final_report = None
  /\ total_employees = 0
  /\ eligible_employees = 0
  /\ excluded_employees = 0
  /\ errors = <<>>
  /\ warnings = <<>>
  /\ processing_stage = "initialized"
  /\ success = FALSE
  /\ exclusion_df = None
  /\ pc = "ingest"

RequiredFiles == {"ativos", "base_sindicato", "base_dias_uteis", "vr_mensal"}

\* pd.to_datetime(errors='coerce') on one cell: NaT for what is not a date
Coerce(v) == IF v = BadDate THEN NaN ELSE v

\* _standardize_data_columns on one table: the identifier column is renamed
\* to MATRICULA; desligados gets DATA_DEMISSAO from 'DATA DEMISSÃO';
\* base_dias_uteis loses its rows with a null cell
StandardizeTable(file_key, df) ==
  IF Empty(df) THEN df
  ELSE LET r == IF "MATRICULA" \in df.columns THEN df ELSE Rename(df, "Cadastro", "MATRICULA")
       IN  IF file_key = "desligados" /\ "DATA DEMISSÃO" \in r.columns
           THEN Frame(r.columns \cup {"DATA_DEMISSAO"},
                      [i \in 1..Len(r.rows) |->
                         SetCell(r.rows[i], "DATA_DEMISSAO", Coerce(r.rows[i]["DATA DEMISSÃO"]))])
           ELSE IF file_key = "base_dias_uteis" /\ {"SINDICATO", "DIAS_UTEIS"} \subseteq r.columns
           THEN Frame(r.columns,
                      SelectSeq(r.rows,
                                LAMBDA row : row["SINDICATO"] # "nan" /\ notna(row["DIAS_UTEIS"])))
           ELSE r

_standardize_data_columns(files) ==
  [k \in DOMAIN files |-> StandardizeTable(k, files[k])]

\* DataIngestionAgent.execute: the files read are one of Inputs; a required
\* file that is missing fails the stage
IngestData(Inputs) ==
  /\ pc = "ingest"
  /\ \E files \in Inputs :
       IF RequiredFiles \subseteq DOMAIN files
       THEN /\ raw_files' = _standardize_data_columns(files)
            /\ processing_stage' = "ingestion_complete"
            /\ success' = TRUE
            /\ total_employees' = Len(files["ativos"].rows)
            /\ errors' = errors
       ELSE /\ errors' = Append(errors, [stage |-> "ingestion",
                                         error |-> "Arquivos obrigatórios não encontrados"])
            /\ success' = FALSE
            /\ processing_stage' = "ingestion_failed"
            /\ UNCHANGED <<raw_files, total_employees>>
  /\ pc' = Successor("ingest")
  /\ UNCHANGED <<consolidated_df, validated_df, calculated_df, final_report,
                 eligible_employees, excluded_employees, warnings, exclusion_df>>

\* the raw tables with every auxiliary table deduplicated in place, as
\* drop_duplicates(inplace=True) on the table itself would leave them
RawDedupedInPlace(files) ==
  [k \in DOMAIN files |->
     IF k # "ativos" /\ "MATRICULA" \in files[k].columns
     THEN DropDuplicates(files[k], "MATRICULA") ELSE files[k]]

\* state["raw_files"] after ConsolidationAgent.execute: the roster and the
\* vacation, dismissal, admission and reference tables are worked on as
\* .copy(), the exclusion tables are only read, so the tables are unchanged
RawAfterConsolidation(files) == files

\* ConsolidationAgent.execute
ConsolidateData ==
  /\ pc = "consolidate"
  /\ LET base_df == ConsolidationTry(raw_files)
     IN  IF Raised(base_df)
         THEN /\ errors' = Append(errors, [stage |-> "consolidation", error |-> base_df.raised])
              /\ success' = FALSE
              /\ processing_stage' = "consolidation_failed"
              /\ UNCHANGED <<consolidated_df, total_employees>>
         ELSE /\ consolidated_df' = base_df
              /\ total_employees' = Len(base_df.rows)
              /\ processing_stage' = "consolidation_complete"
              /\ success' = TRUE
              /\ errors' = errors
  /\ pc' = Successor("consolidate")
  /\ raw_files' = RawAfterConsolidation(raw_files)
  /\ UNCHANGED <<validated_df, calculated_df, final_report,
                 eligible_employees, excluded_employees, warnings, exclusion_df>>

\* ValidationAgent.execute
ValidateData ==
  /\ pc = "validate"
  /\ LET v == ValidationTry(consolidated_df)
     IN  /\ IF v.step >= 2
            THEN excluded_employees' = v.ex.total_excluded /\ exclusion_df' = v.ex.marked
            ELSE UNCHANGED <<excluded_employees, exclusion_df>>
         /\ IF v.step = 5
            THEN /\ eligible_employees' = Len(v.df.rows)
                 /\ validated_df' = v.df
                 /\ processing_stage' = "validation_complete"
                 /\ success' = TRUE
                 /\ errors' = errors
            ELSE /\ errors' = Append(errors, [stage |-> "validation", error |-> v.raised])
                 /\ success' = FALSE
                 /\ processing_stage' = "validation_failed"
                 /\ UNCHANGED <<eligible_employees, validated_df>>
  /\ pc' = Successor("validate")
  /\ UNCHANGED <<raw_files, consolidated_df, calculated_df, final_report,
                 total_employees, warnings>>

\* CalculationAgent.execute.  After state["calculated_df"] = df the handler
\* reads the undefined name `workdays`: the NameError is caught by its own
\* except clause
CalculateBenefits ==
  /\ pc = "calculate"
  /\ IF validated_df = None
     THEN /\ errors' = Append(errors, [stage |-> "calculation",
                                       error |-> "DataFrame validado não encontrado no estado"])
          /\ UNCHANGED <<calculated_df, warnings>>
     ELSE IF Empty(validated_df)
     THEN /\ errors' = Append(errors, [stage |-> "calculation",
                                       error |-> "DataFrame validado está vazio ou inválido"])
          /\ UNCHANGED <<calculated_df, warnings>>
     ELSE /\ calculated_df' = _calculate_individual_benefits(validated_df)
          /\ warnings' = _validate_calculation_results(calculated_df', warnings)
          /\ errors' = Append(errors, [stage |-> "calculation",
                                       error |-> "name 'workdays' is not defined"])
  /\ success' = FALSE
  /\ processing_stage' = "calculation_failed"
  /\ pc' = Successor("calculate")
  /\ UNCHANGED <<raw_files, consolidated_df, validated_df, final_report, total_employees,
                 eligible_employees, excluded_employees, exclusion_df>>

\* a report stage whose failure handler assigns a fresh list to
\* state["errors"] instead of appending to the one it received
GenerateReportRewritingErrors ==
  /\ pc = "generate"
  /\ errors' = <<[stage |-> "report_generation", error |-> "OSError"]>>
  /\ success' = FALSE
  /\ processing_stage' = "report_failed"
  /\ pc' = Successor("generate")
  /\ UNCHANGED <<raw_files, consolidated_df, validated_df, calculated_df, final_report,
                 total_employees, eligible_employees, excluded_employees, warnings,
                 exclusion_df>>

\* ReportGenerationAgent.execute; saved tells whether writing the Excel
\* file succeeded
GenerateReport ==
  /\ pc = "generate"
  /\ \E saved \in BOOLEAN :
       LET df == ExtractDataframe(calculated_df, validated_df, consolidated_df)
           failure == IF df = None \/ Empty(df) THEN "Nenhum DataFrame válido encontrado no state"
                      ELSE IF "MATRICULA" \notin df.columns THEN "MATRICULA não encontrada no DataFrame"
                      ELSE IF ~saved THEN "OSError"
                      ELSE ""
       IN  IF failure = ""
           THEN /\ final_report' = _transform_to_final_format(df)
                /\ processing_stage' = "report_complete"
                /\ success' = TRUE
                /\ errors' = errors
           ELSE /\ errors' = Append(errors, [stage |-> "report_generation", error |-> failure])
                /\ success' = FALSE
                /\ processing_stage' = "report_failed"
                /\ UNCHANGED final_report
  /\ pc' = Successor("generate")
  /\ UNCHANGED <<raw_files, consolidated_df, validated_df, calculated_df, total_employees,
                 eligible_employees, excluded_employees, warnings, exclusion_df>>

-----------------------------------------------------------------------------
(* Input tables *)

SeqsUpTo(S, n) == UNION {[1..k -> S] : k \in 0..n}

RosterColumns == {"MATRICULA", "TITULO DO CARGO", "DESC. SITUACAO", "Sindicato"}

RosterRow(m, cargo, situacao, sindicato) ==
  ("MATRICULA" :> m) @@ ("TITULO DO CARGO" :> cargo) @@
  ("DESC. SITUACAO" :> situacao) @@ ("Sindicato" :> sindicato)

\* a table of two columns, one row per pair of the sequence
PairTable(c1, c2, pairs) ==
  Frame({c1, c2}, [i \in 1..Len(pairs) |-> (c1 :> pairs[i][1]) @@ (c2 :> pairs[i][2])])

\* a table of identifiers under the column col
IdTable(col, ids) == Frame({col}, [i \in 1..Len(ids) |-> (col :> ids[i])])

\* the raw_files dictionary: the tables of t that are not None
Files(t) == [k \in {x \in DOMAIN t : t[x] # None} |-> t[k]]

NoAux ==
  [ferias |-> None, desligados |-> None, admissao |-> None, estagio |-> None,
   aprendiz |-> None, afastamentos |-> None, exterior |-> None]

\* the state in which ConsolidationAgent.execute is entered with raw_files = files
AtConsolidation(files) ==
  /\ raw_files = files
  /\ consolidated_df = None
  /\ validated_df = None
  /\ calculated_df = None
  /\ final_report = None
  /\ total_employees = IF "ativos" \in DOMAIN files THEN Len(files["ativos"].rows) ELSE 0
  /\ eligible_employees = 0
  /\ excluded_employees = 0
  /\ errors = <<>>
  /\ warnings = <<>>
  /\ processing_stage = "ingestion_complete"
  /\ success = TRUE
  /\ exclusion_df = None
  /\ pc = "consolidate"

NextFromConsolidation ==
  ConsolidateData \/ ValidateData \/ CalculateBenefits \/ GenerateReport

-----------------------------------------------------------------------------
(* SpecConsolidation: ConsolidationAgent.execute on rosters with repeated   *)
(* identifiers and auxiliary tables that are missing, empty, repeat an      *)
(* identifier or name identifiers the roster does not have                  *)

RosterRowsC ==
  {RosterRow(1001, c, "Trabalhando", u) :
     c \in {"Analista", "Diretor Regional"}, u \in {"SINDPD SP - SAO PAULO", "nan"}}
  \cup {RosterRow(1002, "Analista", "Trabalhando", u) : u \in {"SINDPD SP - SAO PAULO", "nan"}}

RostersC ==
  {Frame(RosterColumns, rows) : rows \in SeqsUpTo(RosterRowsC, MaxRosterRows)}
  \cup {Frame({"NOME"}, <<("NOME" :> "nan")>>),
        Frame(RosterColumns \ {"Sindicato"},
              <<("MATRICULA" :> 1001) @@ ("TITULO DO CARGO" :> "Analista") @@
                ("DESC. SITUACAO" :> "Trabalhando")>>)}

\* the vacation, dismissal, admission and exclusion-category tables
AuxConfigsC ==
  { NoAux,
    [ferias |-> PairTable("MATRICULA", "DIAS DE FÉRIAS", <<<<1001, 2>>, <<1003, 1>>, <<1001, 3>>>>),
     desligados |-> PairTable("MATRICULA", "DATA_DEMISSAO", <<<<1002, 20>>, <<1003, 10>>, <<1002, 5>>>>),
     admissao |-> PairTable("MATRICULA", "Admissão", <<<<1001, 7>>, <<1001, 8>>, <<1004, 9>>>>),
     estagio |-> IdTable("MATRICULA", <<1001, 1003, 1001>>),
     aprendiz |-> Frame({"MATRICULA"}, <<>>),
     afastamentos |-> None,
     exterior |-> IdTable("Cadastro", <<1002>>)],
    [ferias |-> Frame({"MATRICULA", "DIAS DE FÉRIAS"}, <<>>),
     desligados |-> IdTable("MATRICULA", <<1001, 1003>>),
     admissao |-> None,
     estagio |-> None,
     aprendiz |-> IdTable("MATRICULA", <<1002, NaN>>),
     afastamentos |-> IdTable("MATRICULA", <<1001, 1002>>),
     exterior |-> Frame({"Cadastro"}, <<>>)],
    [ferias |-> PairTable("MATRICULA", "DIAS DE FÉRIAS", <<<<1002, 4>>>>),
     desligados |-> PairTable("MATRICULA", "DATA DEMISSÃO", <<<<1001, 20>>>>),
     admissao |-> None,
     estagio |-> IdTable("MATRICULA", <<1003>>),
     aprendiz |-> IdTable("Cadastro", <<1001>>),
     afastamentos |-> IdTable("MATRICULA", <<1002>>),
     exterior |-> IdTable("MATRICULA", <<1001, 1002>>)],
    [ferias |-> None,
     desligados |-> PairTable("MATRICULA", "DATA_DEMISSAO", <<<<1001, NaN>>, <<1001, 20>>>>),
     admissao |-> PairTable("MATRICULA", "Admissão", <<<<1002, 3>>>>),
     estagio |-> IdTable("MATRICULA", <<1003>>),
     aprendiz |-> Frame({"MATRICULA"}, <<>>),
     afastamentos |-> None,
     exterior |-> IdTable("Cadastro", <<1001>>)] }

\* the union -> rate and union -> workdays reference tables
ReferenceConfigsC ==
  { [base_sindicato |-> None, base_dias_uteis |-> None],
    [base_sindicato |-> Frame({"SINDICATO", "VALOR_DIA"}, <<>>),
     base_dias_uteis |-> PairTable("SINDICATO", "DIAS_UTEIS", <<<<"SINDPD SP - SAO PAULO", 21>>>>)],
    [base_sindicato |-> PairTable("SINDICATO", "VALOR_DIA", <<<<"SINDPD SP - SAO PAULO", 3750>>>>),
     base_dias_uteis |-> Frame({"SINDICATO", "DIAS_UTEIS"}, <<>>)],
    [base_sindicato |-> PairTable("SINDICATO", "VALOR_DIA",
                                  <<<<"SITEPD PR - CURITIBA", 3600>>, <<"SINDPD SP - SAO PAULO", 3750>>>>),
     base_dias_uteis |-> PairTable("SINDICATO", "DIAS_UTEIS", <<<<"SITEPD PR - CURITIBA", 20>>>>)],
    [base_sindicato |-> PairTable("SINDICATO", "VALOR_DIA", <<<<"SITEPD PR - CURITIBA", 3600>>>>),
     base_dias_uteis |-> PairTable("SINDICATO", "DIAS_UTEIS",
                                   <<<<"SINDPD SP - SAO PAULO", 21>>, <<"SITEPD PR - CURITIBA", 20>>>>)] }

InputsC ==
  {Files([ativos |-> a,
          ferias |-> x.ferias, desligados |-> x.desligados, admissao |-> x.admissao,
          estagio |-> x.estagio, aprendiz |-> x.aprendiz,
          afastamentos |-> x.afastamentos, exterior |-> x.exterior,
          base_sindicato |-> r.base_sindicato, base_dias_uteis |-> r.base_dias_uteis]) :
     a \in RostersC \cup {None}, x \in AuxConfigsC, r \in ReferenceConfigsC}

InitConsolidation == \E files \in InputsC : AtConsolidation(files)

SpecConsolidation == InitConsolidation /\ [][NextFromConsolidation]_vars

-----------------------------------------------------------------------------
(* Spec: the whole workflow from run.py's initial state, the input           *)
(* directory holding one of the table sets above with or without the         *)
(* monthly VR sheet                                                          *)

\* a complete input directory for three ordinary employees on a 22-workday
\* base at daily rate 35.00: 1001 plain, 1002 with 5 vacation days, 1003
\* dismissed on the 20th.  The rate and the workdays come from the reference
\* tables (the union is listed) or from the defaults (it is not)
InputsE2E ==
  {Files([ativos |-> Frame(RosterColumns,
                           [i \in 1..3 |-> RosterRow(1000 + i, "Analista", "Trabalhando", u)]),
          ferias |-> PairTable("MATRICULA", "DIAS DE FÉRIAS", <<<<1002, 5>>>>),
          desligados |-> PairTable("MATRICULA", datecol, <<<<1003, 20>>>>),
          base_sindicato |-> PairTable("SINDICATO", "VALOR_DIA",
                                       <<<<"SITEPD PR - CURITIBA", 3500>>, <<"SINDPD SP - SAO PAULO", 3750>>>>),
          base_dias_uteis |-> PairTable("SINDICATO", "DIAS_UTEIS",
                                        <<<<"SITEPD PR - CURITIBA", 22>>, <<"SINDPD SP - SAO PAULO", 21>>>>),
          vr_mensal |-> Frame({"MATRICULA"}, <<>>)]) :
     u \in {"SITEPD PR - CURITIBA", "nan"}, datecol \in {"DATA DEMISSÃO", "DATA_DEMISSAO"}}

InputDirs ==
  InputsC \cup {files @@ ("vr_mensal" :> Frame({"MATRICULA"}, <<>>)) : files \in InputsC}
  \cup InputsE2E

IngestInputDir == IngestData(InputDirs)

Next ==
  IngestInputDir \/ ConsolidateData \/ ValidateData \/ CalculateBenefits \/ GenerateReport

Spec == Init /\ [][Next]_vars

-----------------------------------------------------------------------------
(* SpecLive: the whole workflow under the scheduling of app.ainvoke, over    *)
(* input directories with missing tables, empty tables, a roster without     *)
(* identifiers and dismissal dates that cannot be parsed                     *)

RostersL ==
  {None,
   Frame({"NOME"}, <<("NOME" :> "nan")>>),
   Frame(RosterColumns, <<>>),
   Frame(RosterColumns, <<RosterRow(1001, "Analista", "Trabalhando", "SINDPD SP - SAO PAULO")>>),
   Frame(RosterColumns, <<RosterRow(1001, "Diretor Regional", "Atestado", "nan")>>)}

DesligadosL ==
  {None,
   PairTable("MATRICULA", "DATA_DEMISSAO", <<<<1001, BadDate>>>>),
   PairTable("MATRICULA", "DATA DEMISSÃO", <<<<1001, BadDate>>>>),
   PairTable("MATRICULA", "DATA_DEMISSAO", <<<<1001, 20>>>>),
   PairTable("MATRICULA", "DATA_DEMISSAO", <<<<1001, 5>>>>)}

InputDirsL ==
  {Files([ativos |-> a, ferias |-> f, desligados |-> d, admissao |-> None,
          estagio |-> None, aprendiz |-> None, afastamentos |-> None, exterior |-> None,
          base_sindicato |-> PairTable("SINDICATO", "VALOR_DIA", <<<<"SINDPD SP - SAO PAULO", 3750>>>>),
          base_dias_uteis |-> PairTable("SINDICATO", "DIAS_UTEIS", <<<<"SINDPD SP - SAO PAULO", 21>>>>),
          vr_mensal |-> v]) :
     a \in RostersL, d \in DesligadosL,
     f \in {None, PairTable("MATRICULA", "DIAS DE FÉRIAS", <<<<1001, 2>>>>)},
     v \in {None, Frame({"MATRICULA"}, <<>>)}}

IngestInputDirL == IngestData(InputDirsL)

NextL ==
  IngestInputDirL \/ ConsolidateData \/ ValidateData \/ CalculateBenefits \/ GenerateReport

\* app.ainvoke runs the node that is due until the graph reaches END, and
\* every node is a function that returns: a step that is possible is taken
SpecLive == Init /\ [][NextL]_vars /\ WF_vars(NextL)

-----------------------------------------------------------------------------
(* Properties of consolidation, checked under SpecConsolidation *)

\* the roster as read and the identifiers it holds
RosterRows == raw_files["ativos"].rows
RosterIds == {RosterRows[i]["MATRICULA"] : i \in 1..Len(RosterRows)}

\* the index of the first roster row that carries identifier m
FirstIndex(m) ==
  CHOOSE i \in 1..Len(RosterRows) :
    /\ RosterRows[i]["MATRICULA"] = m
    /\ \A j \in 1..(i - 1) : RosterRows[j]["MATRICULA"] # m

\* the identifiers a table of raw_files lists under its MATRICULA or Cadastro column
TableIds(key) ==
  IF key \notin DOMAIN raw_files THEN {}
  ELSE LET t == raw_files[key]
           col == IF "MATRICULA" \in t.columns THEN "MATRICULA" ELSE "Cadastro"
       IN  {t.rows[i][col] : i \in 1..Len(t.rows)}

ConsolidationSucceeded == consolidated_df # None

\* C7: after a successful consolidation every roster identifier is in exactly
\* one consolidated record, that record carries the roster fields of the
\* first roster row with the identifier, and the kept records are in roster
\* order.
C7_FirstOccurrenceKept ==
  ConsolidationSucceeded =>
    LET out == consolidated_df.rows
    IN  /\ \A m \in RosterIds :
              Cardinality({j \in 1..Len(out) : out[j]["MATRICULA"] = m}) = 1
        /\ \A j \in 1..Len(out) :
              /\ out[j]["MATRICULA"] \in RosterIds
              /\ \A c \in raw_files["ativos"].columns :
                    out[j][c] = RosterRows[FirstIndex(out[j]["MATRICULA"])][c]
        /\ \A j, k \in 1..Len(out) :
              j < k => FirstIndex(out[j]["MATRICULA"]) < FirstIndex(out[k]["MATRICULA"])

\* a roster that repeats an identifier with two different job titles was consolidated
C7_Witness ==
  /\ ConsolidationSucceeded
  /\ Len(RosterRows) = 2
  /\ RosterRows[1]["MATRICULA"] = RosterRows[2]["MATRICULA"]
  /\ RosterRows[1]["TITULO DO CARGO"] # RosterRows[2]["TITULO DO CARGO"]
  /\ Len(consolidated_df.rows) = 1

\* the columns the vacation, dismissal and admission merges bring, with the
\* raw_files key of the table each comes from
MergedFields ==
  {<<"ferias", "DIAS DE FÉRIAS">>, <<"desligados", "DATA_DEMISSAO">>, <<"admissao", "DATA_ADMISSAO">>}

\* C8: the merges of the vacation, dismissal and admission tables add no
\* record and remove none: the consolidated identifiers are the roster's
\* identifiers, one record each, and a roster employee a table does not list
\* has null in the field merged from that table.
C8_MergesKeepRecords ==
  ConsolidationSucceeded =>
    LET out == consolidated_df.rows
    IN  /\ {out[j]["MATRICULA"] : j \in 1..Len(out)} = RosterIds
        /\ Len(out) = Cardinality(RosterIds)
        /\ \A f \in MergedFields : \A j \in 1..Len(out) :
              (f[2] \in consolidated_df.columns /\ out[j]["MATRICULA"] \notin TableIds(f[1]))
                => isna(out[j][f[2]])

\* a vacation table that repeats a roster identifier and lists one the roster
\* lacks was merged into a roster of two employees, one of them unmatched
C8_Witness ==
  /\ ConsolidationSucceeded
  /\ "DIAS DE FÉRIAS" \in consolidated_df.columns
  /\ Len(consolidated_df.rows) = 2
  /\ Len(raw_files["ferias"].rows) > Cardinality(TableIds("ferias"))
  /\ TableIds("ferias") \ RosterIds # {}
  /\ \E j \in 1..2 : isna(consolidated_df.rows[j]["DIAS DE FÉRIAS"])
  /\ \E j \in 1..2 : notna(consolidated_df.rows[j]["DIAS DE FÉRIAS"])

\* the exclusion categories: raw_files key, flag column, cause text
Categories ==
  {<<"estagio", "IS_ESTAGIARIO", "Estagiário">>, <<"aprendiz", "IS_APRENDIZ", "Aprendiz">>,
   <<"afastamentos", "IS_AFASTADO", "Afastado">>, <<"exterior", "IS_EXTERIOR", "Trabalha no exterior">>}

\* the causes of a list of causes, as a set
CauseSet(motivos) == {motivos[i] : i \in 1..Len(motivos)}

\* C9: for each exclusion category and each consolidated employee the flag,
\* read as the eligibility step reads it (false when the column is absent),
\* is true exactly when the category's table lists the employee's
\* identifier; the eligibility step names the category as a cause exactly
\* for the listed employees, so an employee no table lists has no category
\* cause, also when a table is missing or empty.
C9_FlagIffListed ==
  /\ ConsolidationSucceeded =>
        \A cat \in Categories : \A j \in 1..Len(consolidated_df.rows) :
          LET row == consolidated_df.rows[j]
          IN  Get(row, cat[2], FALSE) = (row["MATRICULA"] \in TableIds(cat[1]))
  /\ exclusion_df # None =>
        \A cat \in Categories : \A j \in 1..Len(exclusion_df.rows) :
          LET row == exclusion_df.rows[j]
          IN  (cat[3] \in CauseSet(row["MOTIVO_EXCLUSAO"])) = (row["MATRICULA"] \in TableIds(cat[1]))

\* the eligibility step ran on two employees: one listed in a table keyed by
\* Cadastro and excluded for it, one listed nowhere, with one category table
\* missing and one empty
C9_Witness ==
  /\ exclusion_df # None
  /\ Len(exclusion_df.rows) = 2
  /\ "afastamentos" \notin DOMAIN raw_files
  /\ "aprendiz" \in DOMAIN raw_files /\ raw_files["aprendiz"].rows = <<>>
  /\ "Cadastro" \in raw_files["exterior"].columns
  /\ \E j \in 1..2 : "Trabalha no exterior" \in CauseSet(exclusion_df.rows[j]["MOTIVO_EXCLUSAO"])
  /\ \E j \in 1..2 : \A cat \in Categories :
        /\ exclusion_df.rows[j]["MATRICULA"] \notin TableIds(cat[1])
        /\ Get(exclusion_df.rows[j], cat[2], FALSE) = FALSE

\* the value the reference table of raw_files maps the union to, NaN when
\* the table is missing, is empty or does not list the union
Mapped(key, valcol, sindicato) ==
  IF key \notin DOMAIN raw_files THEN NaN
  ELSE LET hits == {i \in 1..Len(raw_files[key].rows) : raw_files[key].rows[i]["SINDICATO"] = sindicato}
       IN  IF hits = {} THEN NaN
           ELSE raw_files[key].rows[CHOOSE i \in hits : \A k \in hits : k <= i][valcol]

\* C10: after a successful consolidation every record has VALOR_DIA and
\* DIAS_UTEIS_SINDICATO populated: the value the reference table maps the
\* employee's union to, and 35.0 and 22 when the union is unmapped, the
\* employee has no union or the reference table is missing or empty.
C10_RateAndWorkdaysPopulated ==
  ConsolidationSucceeded =>
    \A j \in 1..Len(consolidated_df.rows) :
      LET row == consolidated_df.rows[j]
          sindicato == Get(row, "Sindicato", "nan")
          valor == Mapped("base_sindicato", "VALOR_DIA", sindicato)
          dias == Mapped("base_dias_uteis", "DIAS_UTEIS", sindicato)
      IN  /\ "VALOR_DIA" \in DOMAIN row
          /\ "DIAS_UTEIS_SINDICATO" \in DOMAIN row
          /\ row["VALOR_DIA"] = (IF isna(valor) THEN DefaultDailyValue ELSE valor)
          /\ row["DIAS_UTEIS_SINDICATO"] = (IF isna(dias) THEN DefaultWorkdays ELSE dias)

-----------------------------------------------------------------------------
(* SpecValidation: the pipeline from consolidation on, over rosters whose    *)
(* first employee takes every title and work-status, with the exclusion      *)
(* tables, the dismissal table and the vacation table varied                *)

Titles == {"Analista", "Diretor Regional", "Gerente Geral", "Vice-Presidente"}

Situacoes ==
  {"Trabalhando", "Férias", "Licença Maternidade", "Auxílio Doença", "Atestado", "Afastado"}

\* employee 1001 with the given title and status, then plain employees 1002, 1003, ...
StaffRoster(cargo, situacao, n) ==
  Frame(RosterColumns,
        [i \in 1..n |->
           IF i = 1 THEN RosterRow(1001, cargo, situacao, "SINDPD SP - SAO PAULO")
           ELSE RosterRow(1000 + i, "Analista", "Trabalhando", "SINDPD SP - SAO PAULO")])

\* the sets of exclusion tables that list employee 1001
FlaggedSetsV ==
  {{}, {"estagio"}, {"exterior"}, {"aprendiz", "afastamentos"},
   {"estagio", "aprendiz", "afastamentos", "exterior"}}

\* the dismissal day of employee 1001 (1002 is dismissed on the 20th)
DismissalDaysV == {NaN, 5, 15, 16, BadDate}

DesligadosV ==
  {None, PairTable("MATRICULA", "DATA_DEMISSAO", <<<<1002, 20>>>>)}
  \cup {PairTable("MATRICULA", "DATA_DEMISSAO", <<<<1001, d>>, <<1002, 20>>>>) : d \in DismissalDaysV}

FeriasV ==
  {None,
   PairTable("MATRICULA", "DIAS DE FÉRIAS", <<<<1001, 0>>, <<1002, 0 - 1>>>>),
   PairTable("MATRICULA", "DIAS DE FÉRIAS", <<<<1001, 3>>, <<1002, 2>>>>)}

InputsV ==
  {Files([ativos |-> StaffRoster(c, st, n),
          ferias |-> fe, desligados |-> de, admissao |-> None,
          estagio |-> IF "estagio" \in fl THEN IdTable("MATRICULA", <<1001>>) ELSE None,
          aprendiz |-> IF "aprendiz" \in fl THEN IdTable("MATRICULA", <<1001>>) ELSE None,
          afastamentos |-> IF "afastamentos" \in fl THEN IdTable("MATRICULA", <<1001>>) ELSE None,
          exterior |-> IF "exterior" \in fl THEN IdTable("MATRICULA", <<1001>>) ELSE None,
          base_sindicato |-> PairTable("SINDICATO", "VALOR_DIA", <<<<"SINDPD SP - SAO PAULO", 3750>>>>),
          base_dias_uteis |-> PairTable("SINDICATO", "DIAS_UTEIS", <<<<"SINDPD SP - SAO PAULO", 21>>>>)]) :
     c \in Titles, st \in Situacoes, n \in 1..MaxStaff,
     fl \in FlaggedSetsV, de \in DesligadosV, fe \in FeriasV}

InitValidation == \E files \in InputsV : AtConsolidation(files)

SpecValidation == InitValidation /\ [][NextFromConsolidation]_vars

-----------------------------------------------------------------------------
(* Properties of the eligibility step, checked under SpecValidation *)

\* config.py EXCLUDED_POSITIONS
ExcludedPositions == {"DIRETOR", "GERENTE GERAL", "PRESIDENTE", "VICE-PRESIDENTE"}

\* the work-statuses that disqualify, with the cause each is reported as
DisqualifyingStatuses ==
  ("LICENÇA MATERNIDADE" :> "Situação: LICENÇA MATERNIDADE") @@
  ("AUXÍLIO DOENÇA" :> "Situação: AUXÍLIO DOENÇA") @@
  ("ATESTADO" :> "Situação: ATESTADO")

\* the causes that match a consolidated record
MatchingCauses(row) ==
  {cat[3] : cat \in {c \in Categories : Get(row, c[2], FALSE)}}
  \cup (IF \E p \in ExcludedPositions : Contains(Chars(p), StrUpper(Get(row, "TITULO DO CARGO", "")))
        THEN {"Cargo excluído"} ELSE {})
  \cup {DisqualifyingStatuses[st] :
          st \in {x \in DOMAIN DisqualifyingStatuses :
                    Chars(x) = StrUpper(Get(row, "DESC. SITUACAO", ""))}}

\* the identifiers of the validated set
ValidatedIds == {validated_df.rows[i]["MATRICULA"] : i \in 1..Len(validated_df.rows)}

\* the validated record of identifier m
ValidatedRow(m) ==
  validated_df.rows[CHOOSE i \in 1..Len(validated_df.rows) : validated_df.rows[i]["MATRICULA"] = m]

\* the dismissal date of a consolidated record, NaN when it has none
DismissalDate(row) ==
  IF Get(row, "IS_DESLIGADO", FALSE) THEN Get(row, "DATA_DEMISSAO", NaN) ELSE NaN

\* C5: in the category-exclusion step an employee is excluded exactly when
\* at least one cause matches (a true exclusion flag, a title containing an
\* excluded-position name whatever its case, a disqualifying work-status),
\* the reason of an excluded employee names every matching cause and no
\* other, and an excluded employee is not in the validated set.
C5_ExcludedIffCauseAllNamed ==
  exclusion_df # None =>
    /\ \A j \in 1..Len(exclusion_df.rows) :
          LET row == exclusion_df.rows[j]
          IN  /\ row["ELEGIVEL"] = (MatchingCauses(row) = {})
              /\ CauseSet(row["MOTIVO_EXCLUSAO"]) = MatchingCauses(row)
              /\ Len(row["MOTIVO_EXCLUSAO"]) = Cardinality(MatchingCauses(row))
              /\ (validated_df # None /\ MatchingCauses(row) # {})
                    => row["MATRICULA"] \notin ValidatedIds
    /\ excluded_employees =
          Cardinality({j \in 1..Len(exclusion_df.rows) : MatchingCauses(exclusion_df.rows[j]) # {}})

\* an intern titled 'Diretor Regional' was excluded for both causes
C5_Witness ==
  /\ exclusion_df # None
  /\ \E j \in 1..Len(exclusion_df.rows) :
        LET row == exclusion_df.rows[j]
        IN  /\ Get(row, "IS_ESTAGIARIO", FALSE)
            /\ row["TITULO DO CARGO"] = "Diretor Regional"
            /\ row["ELEGIVEL"] = FALSE
            /\ row["MOTIVO_EXCLUSAO"] = <<"Estagiário", "Cargo excluído">>

\* C4: when validation completes, an employee who passed the category step
\* and has a dismissal date is out of the validated set if the day is at
\* most 15, and in it with regime PROPORCIONAL and the date as
\* DATA_LIMITE_CALCULO if the day is after 15; an employee who passed the
\* category step and has no dismissal date is in the validated set.
C4_DismissalRule ==
  (validated_df # None /\ exclusion_df # None) =>
    \A j \in 1..Len(exclusion_df.rows) :
      LET row == exclusion_df.rows[j]
          m == row["MATRICULA"]
          d == DismissalDate(row)
      IN  row["ELEGIVEL"] =>
            IF isna(d) THEN m \in ValidatedIds
            ELSE IF d <= 15 THEN m \notin ValidatedIds
            ELSE /\ m \in ValidatedIds
                 /\ ValidatedRow(m)["TIPO_CALCULO"] = "PROPORCIONAL"
                 /\ ValidatedRow(m)["DATA_LIMITE_CALCULO"] = d

\* validation completed on an employee dismissed on the 15th, who is out,
\* one dismissed on the 20th, who is in as PROPORCIONAL, and one without a
\* dismissal date, who is in
C4_Witness ==
  /\ validated_df # None
  /\ \E j \in 1..Len(exclusion_df.rows) :
        LET row == exclusion_df.rows[j]
        IN  row["ELEGIVEL"] /\ DismissalDate(row) = 15 /\ row["MATRICULA"] \notin ValidatedIds
  /\ \E j \in 1..Len(validated_df.rows) :
        LET row == validated_df.rows[j]
        IN  /\ DismissalDate(row) = 20
            /\ row["TIPO_CALCULO"] = "PROPORCIONAL"
            /\ row["DATA_LIMITE_CALCULO"] = 20
  /\ \E j \in 1..Len(validated_df.rows) : isna(DismissalDate(validated_df.rows[j]))

\* the vacation-day count of a record is positive
OnVacation(row) ==
  "DIAS DE FÉRIAS" \in DOMAIN row /\ notna(row["DIAS DE FÉRIAS"]) /\ row["DIAS DE FÉRIAS"] > 0

\* the dismissal step made the record PROPORCIONAL
Prorated(row) == notna(DismissalDate(row)) /\ DismissalDate(row) > 15

\* C6: every record of the validated set that the dismissal step did not
\* make PROPORCIONAL has regime FERIAS when its vacation-day count is
\* positive and INTEGRAL otherwise; a record the dismissal step made
\* PROPORCIONAL is PROPORCIONAL whatever its vacation-day count.
C6_VacationRegime ==
  validated_df # None =>
    \A j \in 1..Len(validated_df.rows) :
      LET row == validated_df.rows[j]
      IN  row["TIPO_CALCULO"] =
            (IF Prorated(row) THEN "PROPORCIONAL"
             ELSE IF OnVacation(row) THEN "FERIAS" ELSE "INTEGRAL")

\* validation completed on an employee on vacation, not dismissed, who is
\* FERIAS, one on vacation and dismissed on the 20th, who stays PROPORCIONAL,
\* and one with no vacation, who is INTEGRAL
C6_Witness ==
  /\ validated_df # None
  /\ \E j \in 1..Len(validated_df.rows) :
        LET row == validated_df.rows[j]
        IN  OnVacation(row) /\ ~Prorated(row) /\ row["TIPO_CALCULO"] = "FERIAS"
  /\ \E j \in 1..Len(validated_df.rows) :
        LET row == validated_df.rows[j]
        IN  OnVacation(row) /\ Prorated(row) /\ row["TIPO_CALCULO"] = "PROPORCIONAL"
  /\ \E j \in 1..Len(validated_df.rows) :
        LET row == validated_df.rows[j]
        IN  ~OnVacation(row) /\ ~Prorated(row) /\ row["TIPO_CALCULO"] = "INTEGRAL"

-----------------------------------------------------------------------------
(* SpecCalc: CalculationAgent.execute and the report on a validated frame   *)
(* of one employee, drawn over the regimes, workday counts, vacation days,  *)
(* cutoff days and daily rates                                              *)

\* DIAS_UTEIS_SINDICATO cells
DiasV == (0..MaxDias) \cup {21, 22, NaN}

\* VALOR_DIA cells, in cents (0 and NaN make the built-in table decide)
ValoresV == {NaN, 0, 1, 3333, 3500, 3750}

\* DIAS_FERIAS cells
FeriasDiasV == (0..MaxFerias) \cup {NaN}

\* DATA_LIMITE_CALCULO cells
LimitesV == {NaN, 1, 10, 15, 16, 25, BadDate}

ValidatedRowOf(dias, valor, sindicato, tipo, ferias) ==
  ("MATRICULA" :> 1001) @@ ("Sindicato" :> sindicato) @@
  ("DIAS_UTEIS_SINDICATO" :> dias) @@ ("VALOR_DIA" :> valor) @@
  ("ELEGIVEL_VR" :> TRUE) @@ ("TIPO_CALCULO" :> tipo) @@
  ("EM_FERIAS" :> (tipo = "FERIAS")) @@ ("DIAS_FERIAS" :> ferias)

ValidatedColumns ==
  {"MATRICULA", "Sindicato", "DIAS_UTEIS_SINDICATO", "VALOR_DIA", "ELEGIVEL_VR",
   "TIPO_CALCULO", "EM_FERIAS", "DIAS_FERIAS"}

ValidatedFramesK ==
  LET common == {<<d, v, u>> : d \in DiasV, v \in ValoresV,
                               u \in {"SINDPD SP - SAO PAULO", "SITEPD PR - CURITIBA"}}
  IN  {Frame(ValidatedColumns, <<ValidatedRowOf(c[1], c[2], c[3], "INTEGRAL", 0)>>) : c \in common}
      \cup {Frame(ValidatedColumns, <<ValidatedRowOf(c[1], c[2], c[3], "FERIAS", f)>>) :
              c \in common, f \in FeriasDiasV}
      \cup {Frame(ValidatedColumns \cup {"DATA_LIMITE_CALCULO"},
                  <<ValidatedRowOf(c[1], c[2], c[3], "PROPORCIONAL", 0)
                    @@ ("DATA_LIMITE_CALCULO" :> l)>>) :
              c \in common, l \in LimitesV}

\* the state in which CalculationAgent.execute is entered with validated_df = df
AtCalculation(df) ==
  /\ raw_files = NoFiles
  /\ consolidated_df = None
  /\ validated_df = df
  /\ calculated_df = None
  /\ final_report = None
  /\ total_employees = Len(df.rows)
  /\ eligible_employees = Len(df.rows)
  /\ excluded_employees = 0
  /\ errors = <<>>
  /\ warnings = <<>>
  /\ processing_stage = "validation_complete"
  /\ success = TRUE
  /\ exclusion_df = None
  /\ pc = "calculate"

InitCalc == \E df \in ValidatedFramesK : AtCalculation(df)

NextFromCalculation == CalculateBenefits \/ GenerateReport

SpecCalc == InitCalc /\ [][NextFromCalculation]_vars

-----------------------------------------------------------------------------
(* Properties of the calculation, checked under SpecCalc *)

\* the contractual workdays of a record: DIAS_UTEIS_SINDICATO, 22 when null
ContractualWorkdays(row) ==
  IF "DIAS_UTEIS_SINDICATO" \in DOMAIN row /\ notna(row["DIAS_UTEIS_SINDICATO"])
  THEN row["DIAS_UTEIS_SINDICATO"] ELSE 22

\* the row was calculated without a per-record error
Calculated(row) == row["OBSERVACOES"] # <<"ERRO NO CÁLCULO">>

\* C1: every record processed by _calculate_individual_benefits has a stored
\* total that differs from the sum of the stored employer and employee
\* shares by at most one cent.
C1_SharesSumToTotal ==
  calculated_df # None =>
    \A j \in 1..Len(calculated_df.rows) :
      LET row == calculated_df.rows[j]
          diff == row["VALOR_TOTAL_VR"] - (row["CUSTO_EMPRESA"] + row["DESCONTO_PROFISSIONAL"])
      IN  diff <= 1 /\ 0 - diff <= 1

\* a record was calculated whose total is not a multiple of five cents, so
\* that both shares are rounded
C1_Witness ==
  /\ calculated_df # None
  /\ \E j \in 1..Len(calculated_df.rows) :
        LET row == calculated_df.rows[j]
        IN  /\ Calculated(row)
            /\ row["VALOR_TOTAL_VR"] % 5 # 0
            /\ row["CUSTO_EMPRESA"] > 0 /\ row["DESCONTO_PROFISSIONAL"] > 0

\* C2: a calculated record of regime FERIAS has paid days
\* max(0, contractual workdays - vacation days): zero, never negative, when
\* the vacation days exceed the contractual workdays.
C2_VacationAdjusted ==
  calculated_df # None =>
    \A j \in 1..Len(calculated_df.rows) :
      LET row == calculated_df.rows[j]
          base == ContractualWorkdays(row)
      IN  (row["TIPO_CALCULO"] = "FERIAS" /\ notna(row["DIAS_FERIAS"])) =>
            /\ row["DIAS_CALCULO"] >= 0
            /\ row["DIAS_CALCULO"] =
                  (IF row["DIAS_FERIAS"] > base THEN 0 ELSE base - row["DIAS_FERIAS"])

\* a FERIAS record with more vacation days than contractual workdays was
\* calculated and has zero paid days
C2_Witness ==
  /\ calculated_df # None
  /\ \E j \in 1..Len(calculated_df.rows) :
        LET row == calculated_df.rows[j]
        IN  /\ Calculated(row)
            /\ row["TIPO_CALCULO"] = "FERIAS"
            /\ notna(row["DIAS_FERIAS"])
            /\ row["DIAS_FERIAS"] > ContractualWorkdays(row)
            /\ row["DIAS_CALCULO"] = 0

\* the record is PROPORCIONAL with a cutoff date that is present and is a date
ProratedWithCutoff(row) ==
  /\ row["TIPO_CALCULO"] = "PROPORCIONAL"
  /\ notna(row["DATA_LIMITE_CALCULO"])
  /\ row["DATA_LIMITE_CALCULO"] # BadDate

\* C3 as stated: a PROPORCIONAL record with a cutoff date has paid days
\* max(1, round(contractual workdays x 0.5)) when the cutoff day is at most
\* 15, and the contractual workdays when it is after 15.
C3_HalfMonthRounded ==
  calculated_df # None =>
    \A j \in 1..Len(calculated_df.rows) :
      LET row == calculated_df.rows[j]
          base == ContractualWorkdays(row)
          half == RoundHalfEven(base, 2)
      IN  ProratedWithCutoff(row) =>
            row["DIAS_CALCULO"] =
              (IF row["DATA_LIMITE_CALCULO"] <= 15
               THEN (IF half >= 1 THEN half ELSE 1) ELSE base)

\* C3: a PROPORCIONAL record with a cutoff date has paid days
\* max(1, contractual workdays x 0.5 truncated to an integer) when the
\* cutoff day is at most 15, and the contractual workdays when it is after 15.
C3_HalfMonthTruncated ==
  calculated_df # None =>
    \A j \in 1..Len(calculated_df.rows) :
      LET row == calculated_df.rows[j]
          base == ContractualWorkdays(row)
          half == base \div 2
      IN  ProratedWithCutoff(row) =>
            row["DIAS_CALCULO"] =
              (IF row["DATA_LIMITE_CALCULO"] <= 15
               THEN (IF half >= 1 THEN half ELSE 1) ELSE base)

\* a PROPORCIONAL record of three contractual workdays with a cutoff day
\* before the 15th was calculated and has one paid day
C3_Witness ==
  /\ calculated_df # None
  /\ \E j \in 1..Len(calculated_df.rows) :
        LET row == calculated_df.rows[j]
        IN  /\ ProratedWithCutoff(row)
            /\ row["DATA_LIMITE_CALCULO"] <= 15
            /\ ContractualWorkdays(row) = 3
            /\ row["DIAS_CALCULO"] = 1

-----------------------------------------------------------------------------
(* Properties of the whole run, checked under Spec *)

\* the workflow has reached END: the state app.ainvoke returns
RunEnded == pc = "END"

\* C11: when a stage has recorded an error in errors, the state the run
\* returns has success = FALSE (run.py then exits with a non-zero code).
C11_ErrorMeansFailure ==
  (RunEnded /\ errors # <<>>) => success = FALSE

-----------------------------------------------------------------------------
(* Per-record anomalies in the eligibility step, checked under SpecValidation *)

\* the record is marked dismissed with a date that cannot be parsed
UnparseableDismissal(row) == DismissalDate(row) = BadDate

\* the record has a negative vacation-day count
NegativeVacation(row) ==
  "DIAS DE FÉRIAS" \in DOMAIN row /\ notna(row["DIAS DE FÉRIAS"]) /\ row["DIAS DE FÉRIAS"] < 0

\* C12: a per-record anomaly does not abort the eligibility step: when a
\* record that passed the category step has an unparseable dismissal date,
\* or a negative vacation-day count and no dismissal up to the 15th,
\* validation completes, the record is in the validated set, the
\* unparseable date counts as no dismissal (the record is not PROPORCIONAL)
\* and the negative count as zero vacation days (not FERIAS, DIAS_FERIAS 0).
C12_AnomalyDoesNotAbort ==
  exclusion_df # None =>
    \A j \in 1..Len(exclusion_df.rows) :
      LET row == exclusion_df.rows[j]
          m == row["MATRICULA"]
          d == DismissalDate(row)
      IN  (/\ row["ELEGIVEL"]
           /\ \/ UnparseableDismissal(row)
              \/ NegativeVacation(row) /\ (isna(d) \/ d > 15))
          => /\ validated_df # None
             /\ m \in ValidatedIds
             /\ UnparseableDismissal(row) => ValidatedRow(m)["TIPO_CALCULO"] # "PROPORCIONAL"
             /\ NegativeVacation(row) =>
                  /\ ValidatedRow(m)["TIPO_CALCULO"] # "FERIAS"
                  /\ ValidatedRow(m)["DIAS_FERIAS"] = 0
                  /\ ValidatedRow(m)["EM_FERIAS"] = FALSE

-----------------------------------------------------------------------------
(* Failure of consolidation, checked under SpecConsolidation *)

\* raw_files has no roster, or a roster without the MATRICULA column
RosterUnusable ==
  \/ "ativos" \notin DOMAIN raw_files
  \/ "MATRICULA" \notin raw_files["ativos"].columns

\* C13: when the roster is absent or lacks MATRICULA, ConsolidationAgent.execute
\* appends exactly one entry tagged 'consolidation' to errors, sets success
\* to FALSE and processing_stage to 'consolidation_failed', leaves
\* consolidated_df unset and returns to the workflow (no exception escapes).
C13_UnusableRosterFailsCleanly ==
  [][(pc = "consolidate" /\ RosterUnusable) =>
       /\ Len(errors') = Len(errors) + 1
       /\ SubSeq(errors', 1, Len(errors)) = errors
       /\ errors'[Len(errors')].stage = "consolidation"
       /\ success' = FALSE
       /\ processing_stage' = "consolidation_failed"
       /\ consolidated_df = None /\ consolidated_df' = None
       /\ pc' = "validate"]_vars

\* consolidation has run on a roster that has no MATRICULA column and has
\* left one error and no consolidated frame
C13_Witness ==
  /\ pc = "validate"
  /\ "ativos" \in DOMAIN raw_files
  /\ "MATRICULA" \notin raw_files["ativos"].columns
  /\ processing_stage = "consolidation_failed"
  /\ Len(errors) = 1
  /\ consolidated_df = None

-----------------------------------------------------------------------------
(* The end-to-end scenario, checked under Spec *)

\* the run ingested one of the three-employee input directories
E2ERun == \E files \in InputsE2E : raw_files = _standardize_data_columns(files)

\* the record of the report for identifier m
ReportRow(m) ==
  final_report.rows[CHOOSE i \in 1..Len(final_report.rows) : final_report.rows[i].Matricula = m]

\* C14: in a full run over three eligible employees on a 22-workday base at
\* daily rate 35.00 the report has one record per employee: 770.00 for the
\* employee with no vacation and no dismissal, 595.00 for the one with 5
\* vacation days, 22 x 35.00 for the one dismissed on the 20th, each with an
\* employer share of 80% and an employee share of 20% of its total.
C14_EndToEndTotals ==
  (RunEnded /\ E2ERun /\ final_report # None) =>
    /\ {final_report.rows[i].Matricula : i \in 1..Len(final_report.rows)} = {1001, 1002, 1003}
    /\ Len(final_report.rows) = 3
    /\ ReportRow(1001).Total = 77000
    /\ ReportRow(1002).Total = 59500
    /\ ReportRow(1003).Total = 22 * 3500
    /\ \A m \in {1001, 1002, 1003} :
          /\ 10 * ReportRow(m).CustoEmpresa = 8 * ReportRow(m).Total
          /\ 10 * ReportRow(m).DescontoProfissional = 2 * ReportRow(m).Total
          /\ ReportRow(m).ValorDiario = 3500

\* a full run over the three employees ended with the report written
C14_Witness ==
  /\ RunEnded
  /\ E2ERun
  /\ final_report # None
  /\ processing_stage = "report_complete"
  /\ Len(final_report.rows) = 3
  /\ ReportRow(1002).Dias = 17

-----------------------------------------------------------------------------
(* The validated set, checked under SpecValidation *)

Regimes == {"INTEGRAL", "FERIAS", "PROPORCIONAL"}

\* C15: when validation has completed, no record of validated_df has a true
\* exclusion flag, an excluded title, a disqualifying work-status or a
\* dismissal date with day at most 15, and every record has exactly one
\* regime, one of INTEGRAL, FERIAS and PROPORCIONAL.
C15_ValidatedOnlyEligible ==
  validated_df # None =>
    \A j \in 1..Len(validated_df.rows) :
      LET row == validated_df.rows[j]
          d == DismissalDate(row)
      IN  /\ MatchingCauses(row) = {}
          /\ isna(d) \/ d > 15
          /\ "TIPO_CALCULO" \in DOMAIN row
          /\ row["TIPO_CALCULO"] \in Regimes

\* validation completed and kept some employees while it dropped one for a
\* category cause or for a dismissal up to the 15th
C15_Witness ==
  /\ validated_df # None
  /\ Len(validated_df.rows) >= 1
  /\ \E j \in 1..Len(exclusion_df.rows) :
        LET row == exclusion_df.rows[j]
        IN  /\ row["MATRICULA"] \notin ValidatedIds
            /\ \/ MatchingCauses(row) # {}
               \/ DismissalDate(row) = 5
  /\ \E j \in 1..Len(validated_df.rows) : validated_df.rows[j]["TIPO_CALCULO"] = "PROPORCIONAL"

-----------------------------------------------------------------------------
(* Idempotence of consolidation, checked under SpecConsolidation *)

-----------------------------------------------------------------------------
(* The order of the stages, checked under Spec *)

\* the stages in pipeline order, END last
StageOrder == <<"ingest", "consolidate", "validate", "calculate", "generate", "END">>

Position(node) == CHOOSE i \in 1..Len(StageOrder) : StageOrder[i] = node

\* the collection each stage produces
Produced(node) ==
  CASE node = "ingest" -> raw_files
    [] node = "consolidate" -> consolidated_df
    [] node = "validate" -> validated_df
    [] node = "calculate" -> calculated_df
    [] node = "generate" -> final_report

Unset(node) == IF node = "ingest" THEN raw_files = NoFiles ELSE Produced(node) = None

\* C17: every step of a run goes from a stage to the next one in the order
\* ingest, consolidate, validate, calculate, generate, END, so each stage
\* runs at most once; and while a stage is about to run, the collection it
\* produces and those of the stages after it are still unset, so it cannot
\* read a collection produced downstream.
C17_FixedStageOrder ==
  /\ [](\A i \in 1..5 : Position(pc) <= i => Unset(StageOrder[i]))
  /\ [][Position(pc) < 6 /\ Position(pc') = Position(pc) + 1]_vars

\* a run went through all five stages and each left its collection
C17_Witness ==
  /\ pc = "END"
  /\ raw_files # NoFiles
  /\ consolidated_df # None
  /\ validated_df # None
  /\ calculated_df # None
  /\ final_report # None
  /\ Len(errors) = 1

-----------------------------------------------------------------------------
(* Warnings of consolidation, checked under SpecConsolidation *)

\* the number of roster rows the deduplication discards
DiscardedDuplicates == Len(RosterRows) - Cardinality(RosterIds)

\* C18: after a successful consolidation of a roster that repeats an
\* identifier, warnings holds an entry tagged 'consolidation' (the record of
\* how many duplicate rows were discarded).
C18_DuplicatesWarned ==
  (ConsolidationSucceeded /\ DiscardedDuplicates > 0) =>
    \E i \in 1..Len(warnings) : warnings[i].stage = "consolidation"

-----------------------------------------------------------------------------
(* The regime after the eligibility step, checked under SpecValidation *)

\* C20: once calculation has stored calculated_df, it has the records of
\* validated_df in the same order and each has the regime (TIPO_CALCULO) it
\* has in validated_df, up to the end of the run.
C20_RegimeUnchanged ==
  calculated_df # None =>
    /\ Len(calculated_df.rows) = Len(validated_df.rows)
    /\ \A j \in 1..Len(calculated_df.rows) :
          /\ calculated_df.rows[j]["MATRICULA"] = validated_df.rows[j]["MATRICULA"]
          /\ calculated_df.rows[j]["TIPO_CALCULO"] = validated_df.rows[j]["TIPO_CALCULO"]

\* the run ended with a calculated frame that holds a FERIAS record and a
\* PROPORCIONAL record
C20_Witness ==
  /\ pc = "END"
  /\ calculated_df # None
  /\ \E j \in 1..Len(calculated_df.rows) : calculated_df.rows[j]["TIPO_CALCULO"] = "FERIAS"
  /\ \E j \in 1..Len(calculated_df.rows) : calculated_df.rows[j]["TIPO_CALCULO"] = "PROPORCIONAL"

-----------------------------------------------------------------------------
(* SpecTolerance: CalculationAgent.execute and the report on a validated     *)
(* frame of one INTEGRAL employee whose daily rate has a third decimal       *)

\* the thousandths of the daily rate (even digits: no rounding tie arises)
MilesimosV == {0, 2, 4, 6, 8}

ValidatedFramesT ==
  {Frame(ValidatedColumns \cup {"VALOR_DIA_MILESIMOS"},
         <<ValidatedRowOf(d, v, "SITEPD PR - CURITIBA", "INTEGRAL", 0)
           @@ ("VALOR_DIA_MILESIMOS" :> t)>>) :
     d \in 0..MaxDias, v \in {3500, 3750}, t \in MilesimosV}

InitTolerance == \E df \in ValidatedFramesT : AtCalculation(df)

SpecTolerance == InitTolerance /\ [][NextFromCalculation]_vars

\* C19: when the consistency check of the calculation stage finds a record
\* whose total and shares differ by more than the tolerance, warnings holds
\* an entry tagged 'calculation', and errors holds no entry of the
\* calculation stage on account of it (none but the one every run has).
C19_ViolationWarned ==
  (calculated_df # None /\ Inconsistencies(calculated_df) > 0) =>
    /\ \E i \in 1..Len(warnings) : warnings[i].stage = "calculation"
    /\ \A i \in 1..Len(errors) :
          errors[i].stage = "calculation" => errors[i].error = "name 'workdays' is not defined"

-----------------------------------------------------------------------------
(* Sign of the paid days and of the total, checked under SpecCalc *)

\* C21: every calculated record whose contractual workdays are not negative
\* has a paid-day count of at least 0 and a total of at least 0, whatever
\* its regime and its vacation-day count.
C21_PaidDaysNonNegative ==
  calculated_df # None =>
    \A j \in 1..Len(calculated_df.rows) :
      LET row == calculated_df.rows[j]
      IN  ContractualWorkdays(row) >= 0 =>
            /\ row["DIAS_CALCULO"] \in Nat
            /\ row["VALOR_TOTAL_VR"] >= 0

\* a FERIAS record with more vacation days than contractual workdays was
\* calculated with 0 paid days and a total of 0
C21_Witness ==
  /\ calculated_df # None
  /\ \E j \in 1..Len(calculated_df.rows) :
        LET row == calculated_df.rows[j]
        IN  /\ Calculated(row)
            /\ row["TIPO_CALCULO"] = "FERIAS"
            /\ notna(row["DIAS_FERIAS"])
            /\ row["DIAS_FERIAS"] > ContractualWorkdays(row)
            /\ row["DIAS_CALCULO"] = 0
            /\ row["VALOR_TOTAL_VR"] = 0

-----------------------------------------------------------------------------
(* Outcome of the calculation stage, checked under SpecCalc *)

\* C22: when CalculationAgent.execute has run on a non-empty validated_df,
\* calculated_df holds the calculated records, processing_stage is
\* 'calculation_complete', success is TRUE and errors has no new entry.
C22_CalculationCompletes ==
  (pc = "generate" /\ validated_df # None /\ ~Empty(validated_df)) =>
    /\ calculated_df # None
    /\ processing_stage = "calculation_complete"
    /\ success = TRUE
    /\ errors = <<>>

-----------------------------------------------------------------------------
(* Termination of the run, checked under SpecLive *)

\* C23: every run reaches END, whatever the input directory holds, and at
\* END processing_stage is the outcome of the last stage, a name ending in
\* '_complete' or '_failed'.
C23_RunTerminates ==
  <>(pc = "END" /\ processing_stage \in {"report_complete", "report_failed"})

\* a run whose ingestion failed went through every stage, each recording
\* its failure, and ended
C23_Witness ==
  /\ pc = "END"
  /\ raw_files = NoFiles
  /\ Len(errors) = 5
  /\ errors[1].stage = "ingestion"
  /\ processing_stage = "report_failed"


\* C24: throughout a run the errors list only grows.  Every step leaves the
\* list as it was or appends exactly one entry to it, never removing or
\* rewriting an earlier entry; the appended entry carries the name of the
\* stage that is running (ingestion, consolidation, validation, calculation,
\* report_generation); no stage has more than one entry in the list.
C24_ErrorsOnlyGrow ==
  /\ [](\A i \in 1..Len(errors) :
          /\ errors[i].stage \in {"ingestion", "consolidation", "validation",
                                  "calculation", "report_generation"}
          /\ \A j \in 1..Len(errors) : errors[i].stage = errors[j].stage => i = j)
  /\ [][\/ errors' = errors
        \/ /\ Len(errors') = Len(errors) + 1
           /\ SubSeq(errors', 1, Len(errors)) = errors
           /\ errors'[Len(errors')].stage =
                CASE pc = "ingest" -> "ingestion"
                  [] pc = "consolidate" -> "consolidation"
                  [] pc = "validate" -> "validation"
                  [] pc = "calculate" -> "calculation"
                  [] pc = "generate" -> "report_generation"]_vars

\* a finished run in which the validation, calculation and report stages
\* each failed and left one entry, in that order
C24_Witness ==
  /\ pc = "END"
  /\ Len(errors) = 3
  /\ errors[1].stage = "validation"
  /\ errors[2].stage = "calculation"
  /\ errors[3].stage = "report_generation"


\* C25: once the validation stage has completed, the counters are conserved:
\* total_employees = eligible_employees + excluded_employees, the excluded
\* count covering category exclusions and dismissals up to the cutoff day
\* alike.
C25_CountersConserved ==
  validated_df # None => total_employees = eligible_employees + excluded_employees


\* C26: no employee that the eligibility rules exclude (a true exclusion
\* flag, an excluded title, a disqualifying work-status, or a dismissal date
\* with day at most 15) appears in final_report, whichever collection the
\* report stage takes its records from and whether or not an earlier stage
\* failed.
C26_ExcludedNeverReported ==
  (final_report # None /\ consolidated_df # None) =>
    \A j \in 1..Len(final_report.rows) :
      \A i \in 1..Len(consolidated_df.rows) :
        LET row == consolidated_df.rows[i]
            d == DismissalDate(row)
        IN  row["MATRICULA"] = final_report.rows[j]["Matricula"] =>
              /\ MatchingCauses(row) = {}
              /\ d \notin 1..CutoffDay


\* C27: in a run of the pipeline every record of the validated set with
\* regime PROPORCIONAL has a cutoff date (DATA_LIMITE_CALCULO) whose day is
\* greater than 15, and once calculated its paid-day count equals its
\* contractual workdays: the half-month branch is never taken.
C27_ProratedAlwaysFull ==
  /\ validated_df # None =>
       \A j \in 1..Len(validated_df.rows) :
         LET row == validated_df.rows[j]
         IN  Get(row, "TIPO_CALCULO", "nan") = "PROPORCIONAL" =>
               /\ "DATA_LIMITE_CALCULO" \in DOMAIN row
               /\ notna(row["DATA_LIMITE_CALCULO"])
               /\ row["DATA_LIMITE_CALCULO"] > 15
  /\ calculated_df # None =>
       \A j \in 1..Len(calculated_df.rows) :
         LET row == calculated_df.rows[j]
         IN  Get(row, "TIPO_CALCULO", "nan") = "PROPORCIONAL" =>
               row["DIAS_CALCULO"] = ContractualWorkdays(row)

\* an employee dismissed on the 20th was calculated with the pro-rated
\* regime and all the contractual workdays, next to one dropped for a
\* dismissal on the 5th
C27_Witness ==
  /\ calculated_df # None
  /\ \E j \in 1..Len(calculated_df.rows) :
        LET row == calculated_df.rows[j]
        IN  /\ row["TIPO_CALCULO"] = "PROPORCIONAL"
            /\ row["DATA_LIMITE_CALCULO"] = 20
            /\ row["DIAS_CALCULO"] = ContractualWorkdays(row)
            /\ row["DIAS_CALCULO"] > 0
  /\ \E i \in 1..Len(consolidated_df.rows) : DismissalDate(consolidated_df.rows[i]) = 5


\* C28: a stage that fails leaves every key of the state other than errors,
\* success and processing_stage as it was when the stage began.  The keys
\* written by the validation and calculation stages only are still unset
\* (None, zero, empty) when those stages begin, so after a failed validation
\* the excluded and eligible counters are zero and validated_df is unset,
\* and after a failed calculation calculated_df is unset and warnings empty.
C28_FailedStageLeavesState ==
  /\ processing_stage = "validation_failed" =>
       /\ excluded_employees = 0
       /\ eligible_employees = 0
       /\ validated_df = None
  /\ processing_stage = "calculation_failed" =>
       /\ calculated_df = None
       /\ warnings = <<>>


-----------------------------------------------------------------------------
(* The category-exclusion rule of core/rules.py against the one of the      *)
(* validation stage, checked under SpecValidation                           *)

\* rules.py situacoes_excluidas, as character sequences
situacoes_excluidas ==
  {Chars("LICENCA MATERNIDADE"), Chars("AUXILIO DOENCA"), Chars("ATESTADO"), Chars("AFASTADO")}

\* VRBusinessRules.should_exclude_employee: the first component of the
\* returned pair
should_exclude_employee(employee_data) ==
  LET cargo == StrUpper(Get(employee_data, "TITULO DO CARGO", ""))
      situacao == StrUpper(Get(employee_data, "DESC. SITUACAO", ""))
  IN  \/ \E excluded_position \in ExcludedPositions : Contains(Chars(excluded_position), cargo)
      \/ \E flag \in {"IS_ESTAGIARIO", "IS_APRENDIZ", "IS_AFASTADO", "IS_EXTERIOR"} :
           Get(employee_data, flag, FALSE)
      \/ situacao \in situacoes_excluidas

\* C29: the two implementations of the category-exclusion rule agree: for
\* every record the validation stage has marked (every combination of the
\* exclusion flags, the title and the work-status), should_exclude_employee
\* returns true exactly when _apply_individual_exclusion_rules marked the
\* record ineligible.
C29_RuleImplementationsAgree ==
  exclusion_df # None =>
    \A j \in 1..Len(exclusion_df.rows) :
      LET row == exclusion_df.rows[j]
      IN  should_exclude_employee(row) = (row["ELEGIVEL"] = FALSE)


-----------------------------------------------------------------------------
(* SpecCalcRows: CalculationAgent.execute and the report on validated       *)
(* frames of several employees, some of whose records make the per-record   *)
(* computation raise                                                        *)

MaxCalcRows == 3

\* the records drawn: full month, vacation, vacation with a null day count
\* (int(NaN) raises), pro-rated on the 20th and on the 10th, pro-rated with
\* a cutoff date that cannot be parsed (pd.to_datetime raises)
RecordsR ==
  {ValidatedRowOf(22, 3500, "SINDPD SP - SAO PAULO", "INTEGRAL", 0) @@ ("DATA_LIMITE_CALCULO" :> NaN),
   ValidatedRowOf(21, 3750, "SINDPD SP - SAO PAULO", "FERIAS", 3) @@ ("DATA_LIMITE_CALCULO" :> NaN),
   ValidatedRowOf(22, 3500, "SITEPD PR - CURITIBA", "FERIAS", NaN) @@ ("DATA_LIMITE_CALCULO" :> NaN),
   ValidatedRowOf(NaN, NaN, "SITEPD PR - CURITIBA", "PROPORCIONAL", 0) @@ ("DATA_LIMITE_CALCULO" :> 20),
   ValidatedRowOf(21, 3333, "SINDPD SP - SAO PAULO", "PROPORCIONAL", 0) @@ ("DATA_LIMITE_CALCULO" :> 10),
   ValidatedRowOf(22, 3500, "SINDPD SP - SAO PAULO", "PROPORCIONAL", 0) @@ ("DATA_LIMITE_CALCULO" :> BadDate)}

\* validated frames of one to MaxCalcRows employees 1001, 1002, ...
ValidatedFramesR ==
  {Frame(ValidatedColumns \cup {"DATA_LIMITE_CALCULO"},
         [i \in 1..Len(rs) |-> SetCell(rs[i], "MATRICULA", 1000 + i)]) :
     rs \in SeqsUpTo(RecordsR, MaxCalcRows) \ {<<>>}}

InitCalcRows == \E df \in ValidatedFramesR : AtCalculation(df)

SpecCalcRows == InitCalcRows /\ [][NextFromCalculation]_vars

\* the per-record computation raises on this record
RecordRaises(employee) == WorkdaysRaises(employee) \/ ObservacoesRaises(employee)

\* C30: when the computation of one employee's benefit raises inside
\* _calculate_individual_benefits, only that record is affected: it keeps 0
\* paid days and amounts 0 with the 'ERRO NO CÁLCULO' note and its other
\* fields, the loop goes on to the end of the frame, and the other records
\* get exactly the values the calculation gives them on the frame without
\* the failing records.
C30_RecordErrorIsolated ==
  calculated_df # None =>
    /\ Len(calculated_df.rows) = Len(validated_df.rows)
    /\ \A j \in 1..Len(calculated_df.rows) :
         LET employee == validated_df.rows[j]
             row == calculated_df.rows[j]
         IN  /\ \A c \in DOMAIN employee : row[c] = employee[c]
             /\ RecordRaises(employee) =>
                  /\ row["DIAS_CALCULO"] = 0
                  /\ row["VALOR_TOTAL_VR"] = 0
                  /\ row["CUSTO_EMPRESA"] = 0
                  /\ row["DESCONTO_PROFISSIONAL"] = 0
                  /\ row["OBSERVACOES"] = <<"ERRO NO CÁLCULO">>
    /\ LET sound == Frame(validated_df.columns,
                          SelectSeq(validated_df.rows, LAMBDA r : ~RecordRaises(r)))
       IN  _calculate_individual_benefits(sound).rows = SelectSeq(calculated_df.rows, Calculated)

\* three employees were calculated: the second one's computation raised,
\* the first and the third were paid
C30_Witness ==
  /\ calculated_df # None
  /\ Len(calculated_df.rows) = 3
  /\ RecordRaises(validated_df.rows[2])
  /\ ~Calculated(calculated_df.rows[2])
  /\ Calculated(calculated_df.rows[1]) /\ calculated_df.rows[1]["VALOR_TOTAL_VR"] > 0
  /\ Calculated(calculated_df.rows[3]) /\ calculated_df.rows[3]["VALOR_TOTAL_VR"] > 0

=============================================================================
